---- MODULE Spec2Model ----
(***************************************************************************)
(* The Mohano event broker (server/index.mjs): the per-workspace circular  *)
(* buffer, the token registry with expiry, ingestion and sequencing, the   *)
(* WebSocket fan-out and the filtered query path.                          *)
(*                                                                         *)
(* JavaScript strings are sequences of atoms (an atom stands for one or    *)
(* more characters that the code never splits), so that concatenation and  *)
(* prefix tests are computed and not assumed.  null / undefined are the    *)
(* one-atom sequences Null and Undefined, whose atoms are outside the      *)
(* alphabet of every string a client can send.                             *)
(***************************************************************************)
EXTENDS Integers, Sequences, FiniteSets, TLC

VARIABLES
    now,               \* Date.now()
    API_KEY,           \* process.env.MOHANO_API_KEY || ''
    workspaces,        \* Map token -> workspace
    globalWorkspace,   \* the default workspace
    createRateLimit,   \* { count, resetAt }
    issued,            \* number of tokens drawn from randomBytes so far
    inflight,          \* POST /api/events requests suspended in parseBody
    nextRid,           \* arrival number of the next POST /api/events request
    clients,           \* the WebSocket connections, by connection number
    accepted,          \* history: the ingestions that succeeded, in completion order
    resp,              \* the response written by the last HTTP handler that ran
    ticks,             \* how many times the clock has advanced
    state,             \* the state object of the dashboard page (frontend/app.js)
    consumer           \* a polling consumer of GET /api/events: its cursor and what it has got

vars == << now, API_KEY, workspaces, globalWorkspace, createRateLimit, issued,
           inflight, nextRid, clients, accepted, resp, ticks, state, consumer >>

----------------------------------------------------------------------------
\* Bounds of the model

MaxWorkspaces == 1     \* CreateWorkspace requests that are admitted
MaxClients    == 2     \* WebSocket connections ever opened
MaxRequests   == 2     \* POST /api/events requests that reach parseBody
MaxInflight   == 2     \* of them, suspended in parseBody at the same time
MaxTicks      == 1     \* clock advances
MaxPushes     == 5     \* requests that reach parseBody when they are served one at a time
MaxBurst      == 3     \* requests that reach parseBody when nothing else goes on
MaxSince      == 11    \* largest since_seq / limit a query names
MAX_EVENTS    == 2     \* capacity of every CircularBuffer (process.env.MAX_EVENTS)
StartTime     == 1     \* Date.now() when the process starts
MaxTenants    == 2     \* CreateWorkspace requests admitted while the sweep is studied
MaxElapses    == 2     \* clock advances while the sweep is studied
MaxSubscribers == 2    \* WebSocket connections opened while the sweep is studied
MaxLookups    == 1     \* POST /api/events requests that reach parseBody in a tenant's life
MaxJoins      == 1     \* WebSocket connections opened in a tenant's life
MaxQueryPushes == 4    \* requests that reach parseBody while queries are being made
MaxLimit      == 3     \* largest limit a query names when it combines filters
MaxCreates    == 22    \* CreateWorkspace requests admitted while the rate limiter is studied
MaxReports    == 2     \* agent reports ingested while the directory is studied
MaxWindowTicks == 2    \* clock advances while the rate limiter is studied

----------------------------------------------------------------------------
\* Program constants

WORKSPACE_TTL_MS     == 24 * 60 * 60 * 1000
CLEANUP_INTERVAL_MS  == 60 * 60 * 1000
RATE_LIMIT_WINDOW_MS == 60 * 1000
RATE_LIMIT_MAX       == 20

----------------------------------------------------------------------------
\* JavaScript values

Null      == << "#null" >>
Undefined == << "#undefined" >>
Empty     == << >>

\* !v for a string-or-null value
Falsy(v) == v = Null \/ v = Undefined \/ v = Empty

\* obj.f
Get(obj, f) == IF f \in DOMAIN obj THEN obj[f] ELSE Undefined

\* a || b
Or(a, b) == IF Falsy(a) THEN b ELSE a

\* token.startsWith('moh_')
StartsWithMoh(token) == Len(token) >= 1 /\ token[1] = "moh_"

\* 'moh_' + randomBytes(24).toString('base64url'): the n-th draw
RandomToken(n) == << "moh_", ToString(n) >>

\* new Date().toISOString()
ToISOString(t) == << "iso", ToString(t) >>

----------------------------------------------------------------------------
\* CircularBuffer

\* new Array(capacity): every slot is a hole
Hole == [hole |-> TRUE]

NewCircularBuffer(capacity) ==
    [capacity |-> capacity, buf |-> [i \in 0..(capacity - 1) |-> Hole], head |-> 0, count |-> 0]

\* (a variant that goes on counting once the buffer is full)
push_CountAll(cb, item) ==
    [cb EXCEPT !.buf   = [cb.buf EXCEPT ![cb.head] = item],
               !.head  = (cb.head + 1) % cb.capacity,
               !.count = cb.count + 1]

push(cb, item) ==
    [cb EXCEPT !.buf   = [cb.buf EXCEPT ![cb.head] = item],
               !.head  = (cb.head + 1) % cb.capacity,
               !.count = IF cb.count < cb.capacity THEN cb.count + 1 ELSE cb.count]

\* buf.slice(from, to), to exclusive
Slice(buf, from, to) == [i \in 1..(IF to > from THEN to - from ELSE 0) |-> buf[from + i - 1]]

\* (a variant that takes the unwrapped slice up to head, not up to count)
toArray_UpToHead(cb) ==
    IF cb.count = 0 THEN << >>
    ELSE IF cb.count <= cb.capacity THEN Slice(cb.buf, 0, cb.head)
    ELSE Slice(cb.buf, cb.head, cb.capacity) \o Slice(cb.buf, 0, cb.head)

\* (a variant that returns head-then-tail when wrapped)
toArray_HeadFirst(cb) ==
    IF cb.count = 0 THEN << >>
    ELSE IF cb.count < cb.capacity THEN Slice(cb.buf, 0, cb.count)
    ELSE Slice(cb.buf, 0, cb.head) \o Slice(cb.buf, cb.head, cb.capacity)

toArray(cb) ==
    IF cb.count = 0 THEN << >>
    ELSE IF cb.count < cb.capacity THEN Slice(cb.buf, 0, cb.count)
    ELSE Slice(cb.buf, cb.head, cb.capacity) \o Slice(cb.buf, 0, cb.head)

size(cb) == cb.count

----------------------------------------------------------------------------
\* Per-workspace state

createWorkspace(t) ==
    [events |-> NewCircularBuffer(MAX_EVENTS), agents |-> << >>, wsClients |-> {},
     seq |-> 0, lastActivity |-> t, createdAt |-> t]

\* The workspace a token resolves to is named by a key: the token itself for a
\* registered workspace, Global for the default one, NoWorkspace for null.
Global      == << "#global" >>
NoWorkspace == Null

\* (a variant of Touched that refreshes every registered workspace)
Touched_All(token) ==
    [t \in DOMAIN workspaces |-> [workspaces[t] EXCEPT !.lastActivity = now]]

\* (a variant that falls back to the default workspace for an unknown token)
getWorkspace_Fallback(token) ==
    IF Falsy(token) THEN NoWorkspace
    ELSE IF token \in DOMAIN workspaces THEN token ELSE Global

\* getWorkspace(token), its result ...
getWorkspace(token) ==
    IF Falsy(token) THEN NoWorkspace
    ELSE IF token \in DOMAIN workspaces THEN token ELSE NoWorkspace

\* (a variant that looks every non-empty token up in the registry)
resolveWorkspace_NoPrefixTest(token) ==
    IF ~Falsy(token) THEN getWorkspace(token) ELSE Global

\* (a variant that sends a moh_ token that is not found to the default workspace)
resolveWorkspace_DefaultOnMiss(token) ==
    IF ~Falsy(token) /\ StartsWithMoh(token) /\ getWorkspace(token) # NoWorkspace
    THEN getWorkspace(token)
    ELSE Global

\* resolveWorkspace(token), its result ...
resolveWorkspace(token) ==
    IF ~Falsy(token) /\ StartsWithMoh(token) THEN getWorkspace(token) ELSE Global

\* (a variant of Touched that also counts the lookup in the sequence counter)
Touched_Bump(token) ==
    IF ~Falsy(token) /\ StartsWithMoh(token) /\ token \in DOMAIN workspaces
    THEN [workspaces EXCEPT ![token].lastActivity = now, ![token].seq = @ + 1]
    ELSE workspaces

\* (a variant of Touched in which a lookup leaves lastActivity alone)
Touched_Stale(token) == workspaces

\* ... and its effect: getWorkspace sets ws.lastActivity = Date.now() on a hit
Touched(token) ==
    IF ~Falsy(token) /\ StartsWithMoh(token) /\ token \in DOMAIN workspaces
    THEN [workspaces EXCEPT ![token].lastActivity = now]
    ELSE workspaces

\* the workspace object behind a key, in a registry map w and default workspace g
WsOf(w, g, key) == IF key = Global THEN g ELSE w[key]

Keys == DOMAIN workspaces \cup {Global}

----------------------------------------------------------------------------
\* Request headers and admission

\* The Authorization header of a request that presents bearer token t
Bearer(t) == << "Bearer " >> \o t

\* extractBearerToken(req): /^Bearer\s+(.+)$/ on (headers.authorization || '')
extractBearerToken(authorization) ==
    IF Len(authorization) >= 2 /\ authorization[1] = "Bearer "
    THEN SubSeq(authorization, 2, Len(authorization))
    ELSE Null

\* (a variant that does not look at the query parameter)
checkApiKey_BearerOnly(authorization, api_key) ==
    \/ Falsy(API_KEY)
    \/ authorization = Bearer(API_KEY)

\* checkApiKey(req): api_key is the query parameter of that name, Null when absent
checkApiKey(authorization, api_key) ==
    \/ Falsy(API_KEY)
    \/ authorization = Bearer(API_KEY)
    \/ api_key = API_KEY

\* (a variant that asks a workspace token's bearer for the global key as well)
AdmitPost_KeyToo(authorization, api_key) ==
    LET bearerToken == extractBearerToken(authorization) IN
    IF ~checkApiKey(authorization, api_key) THEN "Unauthorized"
    ELSE IF ~Falsy(bearerToken) /\ StartsWithMoh(bearerToken)
    THEN IF bearerToken \in DOMAIN workspaces THEN "ok" ELSE "Invalid workspace token"
    ELSE "ok"

\* The check in front of every POST /api/ endpoint: "ok", or the error it answers
AdmitPost(authorization, api_key) ==
    LET bearerToken == extractBearerToken(authorization) IN
    IF ~Falsy(bearerToken) /\ StartsWithMoh(bearerToken)
    THEN IF bearerToken \in DOMAIN workspaces THEN "ok" ELSE "Invalid workspace token"
    ELSE IF checkApiKey(authorization, api_key) THEN "ok" ELSE "Unauthorized"

----------------------------------------------------------------------------
\* Rate limiter for workspace creation

\* (a variant that starts a new window without zeroing the counter)
RolledWindow_KeepCount ==
    IF now > createRateLimit.resetAt
    THEN [count |-> createRateLimit.count, resetAt |-> now + RATE_LIMIT_WINDOW_MS]
    ELSE createRateLimit

\* createRateLimit after the window check of checkCreateRateLimit()
RolledWindow ==
    IF now > createRateLimit.resetAt
    THEN [count |-> 0, resetAt |-> now + RATE_LIMIT_WINDOW_MS]
    ELSE createRateLimit

\* checkCreateRateLimit(): its result, and createRateLimit after the call
CreateAllowed == RolledWindow.count < RATE_LIMIT_MAX

\* (a variant that counts a denied request too)
AfterCreateCheck_CountDenied == [RolledWindow EXCEPT !.count = @ + 1]

AfterCreateCheck ==
    IF CreateAllowed THEN [RolledWindow EXCEPT !.count = @ + 1] ELSE RolledWindow

----------------------------------------------------------------------------
\* Request bodies.  A body is what JSON.parse makes of the bytes: it throws
\* ("invalid"), or yields null, a number, or an object (a function from the
\* field names present to their values).

InvalidJSON   == [json |-> "invalid"]
JSONNull      == [json |-> "null"]
JSONNumber    == [json |-> "number"]
JSONObject(o) == [json |-> "object", obj |-> o]

\* the own enumerable properties that {...body} copies
Spread(body) == IF body.json = "object" THEN body.obj ELSE [f \in {} |-> Null]

\* (a variant that spreads the body last, so that its own fields win)
MakeEvent_BodyLast(body, s) ==
    LET o == Spread(body) IN
    [f \in DOMAIN o \cup {"timestamp", "_seq"} |->
        IF f \in DOMAIN o THEN o[f]
        ELSE IF f = "_seq" THEN s
        ELSE ToISOString(now)]

\* (a variant that keeps the _seq of a body that has one)
MakeEvent_KeepBodySeq(body, s) ==
    LET o == Spread(body) IN
    [f \in DOMAIN o \cup {"timestamp", "_seq"} |->
        IF f = "_seq" THEN (IF "_seq" \in DOMAIN o THEN o._seq ELSE s)
        ELSE IF f = "timestamp" THEN Or(Get(o, "timestamp"), ToISOString(now))
        ELSE o[f]]

\* (a variant that always stamps the broker's time)
MakeEvent_BrokerTime(body, s) ==
    LET o == Spread(body) IN
    [f \in DOMAIN o \cup {"timestamp", "_seq"} |->
        IF f = "_seq" THEN s
        ELSE IF f = "timestamp" THEN ToISOString(now)
        ELSE o[f]]

\* the event object built by the POST /api/events handler, with _seq = s
MakeEvent(body, s) ==
    LET o == Spread(body) IN
    [f \in DOMAIN o \cup {"timestamp", "_seq"} |->
        IF f = "_seq" THEN s
        ELSE IF f = "timestamp" THEN Or(Get(o, "timestamp"), ToISOString(now))
        ELSE o[f]]

\* (a variant that reads the counter without incrementing it)
NextSeq_NoIncrement(workspace) == workspace.seq

\* ++workspace.seq: the value of the expression, which is also the new counter
NextSeq(workspace) == workspace.seq + 1

\* trackAgent(workspace, event).  workspace.agents is a Map: a sequence of
\* [key, value] entries in insertion order, set() replacing a present key in place
AgentKey(event) ==
    Or(Get(event, "session_id"), Empty) \o << ":" >>
        \o Or(Get(event, "agent_id"), Or(Get(event, "agent_name"), << "default" >>))

\* (a variant whose last_seen is the broker's clock)
AgentEntry_BrokerClock(event) ==
    [agent_id      |-> Or(Get(event, "agent_id"), Or(Get(event, "session_id"), Empty)),
     agent_type    |-> Get(event, "agent_type"),
     agent_name    |-> Get(event, "agent_name"),
     session_id    |-> Or(Get(event, "session_id"), Empty),
     teammate_name |-> Get(event, "teammate_name"),
     team_name     |-> Get(event, "team_name"),
     last_seen     |-> ToISOString(now)]

AgentEntry(event) ==
    [agent_id      |-> Or(Get(event, "agent_id"), Or(Get(event, "session_id"), Empty)),
     agent_type    |-> Get(event, "agent_type"),
     agent_name    |-> Get(event, "agent_name"),
     session_id    |-> Or(Get(event, "session_id"), Empty),
     teammate_name |-> Get(event, "teammate_name"),
     team_name     |-> Get(event, "team_name"),
     last_seen     |-> event.timestamp]

MapSet(m, k, v) ==
    IF \E i \in 1..Len(m) : m[i].key = k
    THEN [i \in 1..Len(m) |-> IF m[i].key = k THEN [key |-> k, value |-> v] ELSE m[i]]
    ELSE Append(m, [key |-> k, value |-> v])

trackAgent(agents, event) == MapSet(agents, AgentKey(event), AgentEntry(event))

----------------------------------------------------------------------------
\* WebSocket connections.  A connection is "open" from the upgrade until its
\* socket goes away, "closing" from then until its 'close' / 'error' event
\* has been handled, and "closed" afterwards.  code is the close code the
\* server sent (0: none), received what ws.send handed to it, in order,
\* joinedAt how many ingestions had succeeded when it was admitted, and signal
\* whether its workspace was in the registry when the server closed it.

\* (a variant that replays the stored events to a new connection)
NewClient_Replay(key) ==
    [state |-> "open", key |-> key,
     received |-> toArray(WsOf(workspaces, globalWorkspace, key).events),
     code |-> 0, joinedAt |-> Len(accepted), signal |-> "none"]

NewClient(key) ==
    [state |-> "open", key |-> key, received |-> << >>, code |-> 0,
     joinedAt |-> Len(accepted), signal |-> "none"]

\* ws.send(msg) hands msg to an open connection
CanReceive(c) == clients[c].state = "open"

\* The connections of a set whose send can throw: those no longer open
\* (whether send throws or drops the message there depends on the ws version)
MayThrow(wsClients) == {c \in wsClients : ~CanReceive(c)}

\* (a variant that sends to every connection of the server)
Recipients_AllClients(wsClients) == DOMAIN clients

\* The connections broadcastToWorkspace(workspace, event) attempts
Recipients(wsClients) == wsClients

\* (a variant that sends the event under the number after its own)
Delivered_Ahead(wsClients, thrown, event) ==
    [c \in DOMAIN clients |->
        IF c \in Recipients(wsClients) /\ c \notin thrown /\ CanReceive(c)
        THEN [clients[c] EXCEPT !.received = Append(@, [event EXCEPT !._seq = @ + 1])]
        ELSE clients[c]]

\* (a variant that sends every message twice)
Delivered_Twice(wsClients, thrown, event) ==
    [c \in DOMAIN clients |->
        IF c \in Recipients(wsClients) /\ c \notin thrown /\ CanReceive(c)
        THEN [clients[c] EXCEPT !.received = Append(Append(@, event), event)]
        ELSE clients[c]]

\* (a variant whose try/catch is around the loop: the first throw ends the
\* loop, and the Set is visited in insertion order)
Delivered_StopAtThrow(wsClients, thrown, event) ==
    [c \in DOMAIN clients |->
        IF /\ c \in Recipients(wsClients) /\ c \notin thrown /\ CanReceive(c)
           /\ \A d \in thrown : c < d
        THEN [clients[c] EXCEPT !.received = Append(@, event)]
        ELSE clients[c]]

\* broadcastToWorkspace(workspace, event), where send throws for the
\* connections in thrown: the connections afterwards ...
Delivered(wsClients, thrown, event) ==
    [c \in DOMAIN clients |->
        IF c \in Recipients(wsClients) /\ c \notin thrown /\ CanReceive(c)
        THEN [clients[c] EXCEPT !.received = Append(@, event)]
        ELSE clients[c]]

\* ... and workspace.wsClients afterwards
broadcastToWorkspace(wsClients, thrown) == wsClients \ thrown

----------------------------------------------------------------------------
\* GET /api/events

\* parseInt(s, 10): leading blanks, a sign, then the longest run of digits;
\* NaN when there is no digit
Digits == << "0", "1", "2", "3", "4", "5", "6", "7", "8", "9" >>
IsDigit(ch) == \E d \in 1..10 : Digits[d] = ch
DigitValue(ch) == (CHOOSE d \in 1..10 : Digits[d] = ch) - 1

NaN == [nan |-> TRUE, val |-> 0]
Num(n) == [nan |-> FALSE, val |-> n]

RECURSIVE SkipBlanks(_)
SkipBlanks(s) == IF Len(s) > 0 /\ s[1] = " " THEN SkipBlanks(Tail(s)) ELSE s

RECURSIVE DigitRun(_, _, _)
\* the value of the leading digits of s, given acc from n digits read so far
DigitRun(s, acc, n) ==
    IF Len(s) > 0 /\ IsDigit(s[1])
    THEN DigitRun(Tail(s), 10 * acc + DigitValue(s[1]), n + 1)
    ELSE IF n = 0 THEN NaN ELSE Num(acc)

parseInt(s) ==
    LET t == SkipBlanks(s) IN
    IF Len(t) > 0 /\ t[1] = "-"
    THEN LET r == DigitRun(Tail(t), 0, 0) IN IF r.nan THEN NaN ELSE Num(0 - r.val)
    ELSE IF Len(t) > 0 /\ t[1] = "+" THEN DigitRun(Tail(t), 0, 0)
    ELSE DigitRun(t, 0, 0)

\* a > b for a number a and a parseInt result b (false on NaN)
Gt(a, b) == ~b.nan /\ a > b.val

\* result.slice(-n) for n > 0
SliceLast(result, n) ==
    IF n >= Len(result) THEN result ELSE SubSeq(result, Len(result) - n + 1, Len(result))

\* The query parameters: url.searchParams.get(name), Null when absent
NoFilters ==
    [session_id |-> Null, agent_type |-> Null, tool_name |-> Null,
     hook_event_name |-> Null, since_seq |-> Null, limit |-> Null]

\* (a variant that lets through the events that lack the field)
FilterEq_Loose(result, field, value) ==
    IF Falsy(value) THEN result
    ELSE LET Keep(e) == Falsy(Get(e, field)) \/ Get(e, field) = value IN SelectSeq(result, Keep)

FilterEq(result, field, value) ==
    IF Falsy(value) THEN result
    ELSE LET Keep(e) == Get(e, field) = value IN SelectSeq(result, Keep)

\* (a variant that also drops the event numbered since_seq + 1)
FilterSince_SkipOne(result, since) ==
    IF Falsy(since) THEN result
    ELSE LET sinceSeq == parseInt(since)
             Keep(e)  == ~sinceSeq.nan /\ e._seq > sinceSeq.val + 1
         IN SelectSeq(result, Keep)

\* (a variant that keeps the event numbered since_seq itself)
FilterSince_Inclusive(result, since) ==
    IF Falsy(since) THEN result
    ELSE LET sinceSeq == parseInt(since)
             Keep(e)  == ~sinceSeq.nan /\ e._seq >= sinceSeq.val
         IN SelectSeq(result, Keep)

FilterSince(result, since) ==
    IF Falsy(since) THEN result
    ELSE LET sinceSeq == parseInt(since)
             Keep(e)  == Gt(e._seq, sinceSeq)
         IN SelectSeq(result, Keep)

ApplyLimit(result, limit) ==
    IF Falsy(limit) THEN result
    ELSE LET n == parseInt(limit) IN
         IF ~n.nan /\ n.val > 0 THEN SliceLast(result, n.val) ELSE result

\* (a variant that applies the limit before the filters)
QueryEvents_CapFirst(w, q) ==
    LET r0 == ApplyLimit(toArray(w.events), q.limit)
        r1 == FilterEq(r0, "session_id", q.session_id)
        r2 == FilterEq(r1, "agent_type", q.agent_type)
        r3 == FilterEq(r2, "tool_name", q.tool_name)
        r4 == FilterEq(r3, "hook_event_name", q.hook_event_name)
    IN FilterSince(r4, q.since_seq)

\* the array the handler answers for workspace object w and parameters q
QueryEvents(w, q) ==
    LET r0 == toArray(w.events)
        r1 == FilterEq(r0, "session_id", q.session_id)
        r2 == FilterEq(r1, "agent_type", q.agent_type)
        r3 == FilterEq(r2, "tool_name", q.tool_name)
        r4 == FilterEq(r3, "hook_event_name", q.hook_event_name)
        r5 == FilterSince(r4, q.since_seq)
    IN ApplyLimit(r5, q.limit)

\* GET /api/agents: [...workspace.agents.values()]
ListAgents(w) == [i \in 1..Len(w.agents) |-> w.agents[i].value]

----------------------------------------------------------------------------
\* The dashboard page (frontend/app.js).  Delays are kept in 1/32 ms, so that
\* the products by 1.5 below the cap are whole numbers.
Ms(n) == 32 * n

\* the page served at /d/<token> is that of the first tenant
WORKSPACE_TOKEN == RandomToken(1)

\* const state = { ..., wsConnected, reconnectDelay, reconnectTimer, ws, tokenError }.
\* ws is null (NoSocket) or a WebSocket: its readyState, and the number of the
\* server's connection once the upgrade was done; reconnectTimer is null
\* (NoTimer) or the timer set last: its delay, and whether it has yet to fire
NoSocket == [readyState |-> "null", conn |-> 0]
NoTimer  == [delay |-> 0, pending |-> FALSE]

NewState ==
    [wsConnected |-> FALSE, reconnectDelay |-> Ms(1000), reconnectTimer |-> NoTimer,
     ws |-> NoSocket, tokenError |-> FALSE]

\* scheduleReconnect(): clearTimeout, then setTimeout(..., state.reconnectDelay)
scheduleReconnect(st) ==
    [st EXCEPT !.reconnectTimer = [delay |-> st.reconnectDelay, pending |-> TRUE]]

\* connectWebSocket()
connectWebSocket(st) ==
    IF st.tokenError THEN st
    ELSE IF st.ws # NoSocket /\ st.ws.readyState \in {"OPEN", "CONNECTING"} THEN st
    ELSE [st EXCEPT !.ws = [readyState |-> "CONNECTING", conn |-> 0],
                    !.wsConnected = FALSE]

\* state.ws.onopen, for the connection the server numbered c
onopen(st, c) ==
    [st EXCEPT !.ws = [readyState |-> "OPEN", conn |-> c],
               !.wsConnected = TRUE,
               !.reconnectDelay = Ms(1000)]

\* state.ws.onclose, for a close event with the given code
onclose(st, code) ==
    LET closed == [st EXCEPT !.ws = [readyState |-> "CLOSED", conn |-> st.ws.conn],
                             !.wsConnected = FALSE]
    IN IF code = 4001 THEN [closed EXCEPT !.tokenError = TRUE]
       ELSE scheduleReconnect(closed)

\* Math.min(state.reconnectDelay * 1.5, 30000)
Backoff(delay) == IF delay * 3 > Ms(30000) * 2 THEN Ms(30000) ELSE (delay * 3) \div 2

\* the callback of the reconnect timer
onTimer(st) ==
    LET fired == [st EXCEPT !.reconnectTimer = [delay |-> st.reconnectTimer.delay,
                                                pending |-> FALSE]]
    IN [connectWebSocket(fired) EXCEPT !.reconnectDelay = Backoff(st.reconnectDelay)]

\* A consumer of GET /api/events that keeps the highest _seq it has received
\* (0 at first) and everything it has received, in the order received
NewConsumer == [cursor |-> 0, log |-> << >>]

----------------------------------------------------------------------------
Init ==
    /\ now = StartTime
    /\ API_KEY = Empty
    /\ workspaces = [t \in {} |-> Null]
    /\ globalWorkspace = createWorkspace(StartTime)
    /\ createRateLimit = [count |-> 0, resetAt |-> 0]
    /\ issued = 0
    /\ inflight = {}
    /\ nextRid = 1
    /\ clients = << >>
    /\ accepted = << >>
    /\ resp = [op |-> "none"]
    /\ ticks = 0
    /\ state = NewState
    /\ consumer = NewConsumer

\* The clock advances by d milliseconds
Tick(d) ==
    /\ now' = now + d
    /\ ticks' = ticks + 1
    /\ UNCHANGED << state, consumer, API_KEY, workspaces, globalWorkspace, createRateLimit, issued,
                    inflight, nextRid, clients, accepted, resp >>

\* (a variant whose draw repeats the token drawn before it)
CreateWorkspace_ReuseToken ==
    /\ createRateLimit' = AfterCreateCheck
    /\ IF ~CreateAllowed
       THEN /\ resp' = [op |-> "create", status |-> 429]
            /\ UNCHANGED << workspaces, issued >>
       ELSE LET token == RandomToken(IF issued = 0 THEN 1 ELSE issued) IN
            /\ workspaces' = [t \in DOMAIN workspaces \cup {token} |->
                                IF t = token THEN createWorkspace(now) ELSE workspaces[t]]
            /\ issued' = issued + 1
            /\ resp' = [op |-> "create", status |-> 201, token |-> token]
    /\ UNCHANGED << state, consumer, now, API_KEY, globalWorkspace, inflight, nextRid, clients, accepted, ticks >>

\* POST /api/workspaces
CreateWorkspace ==
    /\ createRateLimit' = AfterCreateCheck
    /\ IF ~CreateAllowed
       THEN /\ resp' = [op |-> "create", status |-> 429]
            /\ UNCHANGED << workspaces, issued >>
       ELSE LET token == RandomToken(issued + 1) IN
            /\ workspaces' = [t \in DOMAIN workspaces \cup {token} |->
                                IF t = token THEN createWorkspace(now) ELSE workspaces[t]]
            /\ issued' = issued + 1
            /\ resp' = [op |-> "create", status |-> 201, token |-> token]
    /\ UNCHANGED << state, consumer, now, API_KEY, globalWorkspace, inflight, nextRid, clients, accepted, ticks >>

\* POST /api/events, up to the await: the admission check, then parseBody
\* suspends.  Requests are numbered as they reach parseBody.
IngestStart(authorization, api_key) ==
    /\ IF AdmitPost(authorization, api_key) = "ok"
       THEN /\ inflight' = inflight \cup {[rid |-> nextRid, authorization |-> authorization]}
            /\ nextRid' = nextRid + 1
            /\ UNCHANGED resp
       ELSE /\ resp' = [op |-> "ingest", status |-> 401,
                        error |-> AdmitPost(authorization, api_key)]
            /\ UNCHANGED << inflight, nextRid >>
    /\ UNCHANGED << state, consumer, now, API_KEY, workspaces, globalWorkspace, createRateLimit, issued,
                    clients, accepted, ticks >>

\* POST /api/events, from the await on: the body has arrived (body), and send
\* throws for the connections in thrown
IngestFinish(r, body, thrown) ==
    /\ r \in inflight
    /\ inflight' = inflight \ {r}
    /\ LET bearerToken == extractBearerToken(r.authorization)
           key         == resolveWorkspace(bearerToken)
           touched     == Touched(bearerToken)
           workspace   == WsOf(touched, globalWorkspace, key)
           event       == MakeEvent(body, NextSeq(workspace))
           stored      == [workspace EXCEPT
                              !.seq       = NextSeq(workspace),
                              !.events    = push(workspace.events, event),
                              !.agents    = trackAgent(workspace.agents, event),
                              !.wsClients = broadcastToWorkspace(workspace.wsClients, thrown)]
       IN
       IF body.json = "invalid"
       THEN \* parseBody rejects: nothing after the await runs but the catch
            /\ thrown = {}
            /\ resp' = [op |-> "ingest", status |-> 400, error |-> "Invalid JSON"]
            /\ UNCHANGED << workspaces, globalWorkspace, clients, accepted >>
       ELSE IF key = NoWorkspace
       THEN /\ thrown = {}
            /\ resp' = [op |-> "ingest", status |-> 401, error |-> "Invalid workspace token"]
            /\ UNCHANGED << workspaces, globalWorkspace, clients, accepted >>
       ELSE IF body.json = "null"
       THEN \* body.timestamp throws a TypeError before ++workspace.seq is evaluated
            /\ thrown = {}
            /\ workspaces' = touched
            /\ resp' = [op |-> "ingest", status |-> 400, error |-> "Invalid JSON"]
            /\ UNCHANGED << globalWorkspace, clients, accepted >>
       ELSE /\ thrown \subseteq MayThrow(workspace.wsClients)
            /\ IF key = Global
               THEN globalWorkspace' = stored /\ workspaces' = touched
               ELSE workspaces' = [touched EXCEPT ![key] = stored] /\ UNCHANGED globalWorkspace
            /\ clients' = Delivered(workspace.wsClients, thrown, event)
            /\ accepted' = Append(accepted, [rid |-> r.rid, key |-> key, event |-> event,
                                             reply |-> event._seq])
            /\ resp' = [op |-> "ingest", status |-> 200, seq |-> event._seq]
    /\ UNCHANGED << state, consumer, now, API_KEY, createRateLimit, issued, nextRid, ticks >>

\* GET /api/events?token=...&...
GetEvents(token, q) ==
    /\ LET key == resolveWorkspace(token) IN
       IF key = NoWorkspace
       THEN /\ resp' = [op |-> "query", status |-> 401]
            /\ UNCHANGED workspaces
       ELSE /\ workspaces' = Touched(token)
            /\ resp' = [op |-> "query", status |-> 200,
                        body |-> QueryEvents(WsOf(workspaces, globalWorkspace, key), q)]
    /\ UNCHANGED << state, consumer, now, API_KEY, globalWorkspace, createRateLimit, issued, inflight,
                    nextRid, clients, accepted, ticks >>

\* GET /api/agents?token=...
GetAgents(token) ==
    /\ LET key == resolveWorkspace(token) IN
       IF key = NoWorkspace
       THEN /\ resp' = [op |-> "agents", status |-> 401]
            /\ UNCHANGED workspaces
       ELSE /\ workspaces' = Touched(token)
            /\ resp' = [op |-> "agents", status |-> 200,
                        body |-> ListAgents(WsOf(workspaces, globalWorkspace, key))]
    /\ UNCHANGED << state, consumer, now, API_KEY, globalWorkspace, createRateLimit, issued, inflight,
                    nextRid, clients, accepted, ticks >>

\* (a variant that admits a connection whose token is not found to the
\* default workspace)
Subscribe_Fallback(token) ==
    /\ LET found == resolveWorkspace(token)
           key   == IF found = NoWorkspace THEN Global ELSE found
           c     == Len(clients) + 1
       IN
       /\ clients' = Append(clients, NewClient(key))
       /\ IF key = Global
          THEN /\ globalWorkspace' = [globalWorkspace EXCEPT !.wsClients = @ \cup {c}]
               /\ UNCHANGED workspaces
          ELSE /\ workspaces' = [Touched(token) EXCEPT ![key].wsClients = @ \cup {c}]
               /\ UNCHANGED globalWorkspace
       /\ resp' = [op |-> "subscribe", status |-> 101, client |-> c]
    /\ UNCHANGED << state, consumer, now, API_KEY, createRateLimit, issued, inflight, nextRid, accepted, ticks >>

\* server.on('upgrade') for /ws?token=...  (wss.handleUpgrade calls back
\* before the handler returns)
Subscribe(token) ==
    /\ LET key == resolveWorkspace(token)
           c   == Len(clients) + 1
       IN
       IF key = NoWorkspace
       THEN /\ resp' = [op |-> "subscribe", status |-> 401]
            /\ UNCHANGED << workspaces, globalWorkspace, clients >>
       ELSE /\ clients' = Append(clients, NewClient(key))
            /\ IF key = Global
               THEN /\ globalWorkspace' = [globalWorkspace EXCEPT !.wsClients = @ \cup {c}]
                    /\ UNCHANGED workspaces
               ELSE /\ workspaces' = [Touched(token) EXCEPT ![key].wsClients = @ \cup {c}]
                    /\ UNCHANGED globalWorkspace
            /\ resp' = [op |-> "subscribe", status |-> 101, client |-> c]
    /\ UNCHANGED << state, consumer, now, API_KEY, createRateLimit, issued, inflight, nextRid, accepted, ticks >>

\* The socket of connection c goes away (the peer closes it, or it fails)
Disconnect(c) ==
    /\ c \in DOMAIN clients
    /\ clients[c].state = "open"
    /\ clients' = [clients EXCEPT ![c].state = "closing"]
    /\ UNCHANGED << state, consumer, now, API_KEY, workspaces, globalWorkspace, createRateLimit, issued,
                    inflight, nextRid, accepted, resp, ticks >>

\* (a variant whose handlers leave the connection in the subscriber set)
CloseEvent_KeepMember(c) ==
    /\ c \in DOMAIN clients
    /\ clients[c].state = "closing"
    /\ clients' = [clients EXCEPT ![c].state = "closed"]
    /\ UNCHANGED << state, consumer, now, API_KEY, workspaces, globalWorkspace, createRateLimit, issued,
                    inflight, nextRid, accepted, resp, ticks >>

\* ws.on('close') / ws.on('error') of connection c: workspace.wsClients.delete(ws),
\* on the workspace object the upgrade resolved (which may have left the registry)
CloseEvent(c) ==
    /\ c \in DOMAIN clients
    /\ clients[c].state = "closing"
    /\ clients' = [clients EXCEPT ![c].state = "closed"]
    /\ LET key == clients[c].key IN
       IF key = Global
       THEN /\ globalWorkspace' = [globalWorkspace EXCEPT !.wsClients = @ \ {c}]
            /\ UNCHANGED workspaces
       ELSE /\ workspaces' = IF key \in DOMAIN workspaces
                             THEN [workspaces EXCEPT ![key].wsClients = @ \ {c}]
                             ELSE workspaces
            /\ UNCHANGED globalWorkspace
    /\ UNCHANGED << state, consumer, now, API_KEY, createRateLimit, issued, inflight, nextRid, accepted,
                    resp, ticks >>

\* cleanupWorkspaces(), when the interval timer fires
\* (a variant whose test is now - lastActivity >= TTL)
Expired_Inclusive(token) == now - workspaces[token].lastActivity >= WORKSPACE_TTL_MS

\* (a variant that measures the age of the workspace, not its idle time)
Expired_ByAge(token) == now - workspaces[token].createdAt > WORKSPACE_TTL_MS

Expired(token) == now - workspaces[token].lastActivity > WORKSPACE_TTL_MS

\* for (const [token, ws] of workspaces): the tokens from the n-th issued on,
\* in insertion order
RECURSIVE Entries(_)
Entries(n) ==
    IF n > issued THEN << >>
    ELSE IF RandomToken(n) \in DOMAIN workspaces
         THEN << RandomToken(n) >> \o Entries(n + 1)
         ELSE Entries(n + 1)

\* client.close(4002, 'Workspace expired') for the connections in members,
\* while registry w is the Map: an open connection starts closing
CloseAll(cl, members, w, token) ==
    [c \in DOMAIN cl |->
        IF c \in members /\ cl[c].state = "open"
        THEN [cl[c] EXCEPT !.state = "closing", !.code = 4002,
                           !.signal = IF token \in DOMAIN w THEN "registered" ELSE "removed"]
        ELSE cl[c]]

\* (a variant that closes only the first connection of the Set)
SweepEntry_CloseFirst(st, token) ==
    IF Expired(token)
    THEN LET members == st.workspaces[token].wsClients
             first   == {c \in members : \A d \in members : c <= d}
         IN [workspaces |-> [t \in DOMAIN st.workspaces \ {token} |-> st.workspaces[t]],
             clients    |-> CloseAll(st.clients, first, st.workspaces, token)]
    ELSE st

\* one turn of the loop, from the Map and the connections in st
SweepEntry(st, token) ==
    IF Expired(token)
    THEN [workspaces |-> [t \in DOMAIN st.workspaces \ {token} |-> st.workspaces[t]],
          clients    |-> CloseAll(st.clients, st.workspaces[token].wsClients,
                                  st.workspaces, token)]
    ELSE st

RECURSIVE SweepLoop(_, _)
SweepLoop(st, entries) ==
    IF entries = << >> THEN st
    ELSE SweepLoop(SweepEntry(st, Head(entries)), Tail(entries))

\* (a variant in which the default workspace is recreated once it is stale)
SweptGlobal_Expiring ==
    IF now - globalWorkspace.lastActivity > WORKSPACE_TTL_MS
    THEN createWorkspace(now)
    ELSE globalWorkspace

\* the default workspace after the loop: it is not an entry of the Map
SweptGlobal == globalWorkspace

cleanupWorkspaces ==
    LET st == SweepLoop([workspaces |-> workspaces, clients |-> clients], Entries(1)) IN
    /\ clients' = st.clients
    /\ workspaces' = st.workspaces
    /\ globalWorkspace' = SweptGlobal
    /\ UNCHANGED << state, consumer, now, API_KEY, createRateLimit, issued, inflight,
                    nextRid, accepted, resp, ticks >>

\* cleanupWorkspaces() when client.close throws for the connections in
\* thrown: the catch inside the inner loop swallows the exception, such a
\* connection is not signalled, and both loops go on
SweepEntryThrowing(st, token, thrown) ==
    IF Expired(token)
    THEN [workspaces |-> [t \in DOMAIN st.workspaces \ {token} |-> st.workspaces[t]],
          clients    |-> CloseAll(st.clients, st.workspaces[token].wsClients \ thrown,
                                  st.workspaces, token)]
    ELSE st

\* (a variant whose try/catch is around the outer loop: the first close that
\* throws ends the sweep, the members before it in the Set having been
\* signalled and the workspace being left in the Map)
RECURSIVE SweepLoopThrowing_Abort(_, _, _)
SweepLoopThrowing_Abort(st, entries, thrown) ==
    IF entries = << >> THEN st
    ELSE LET token   == Head(entries)
             members == st.workspaces[token].wsClients
             before  == {c \in members : \A d \in members \cap thrown : c < d}
         IN IF Expired(token) /\ members \cap thrown # {}
            THEN [workspaces |-> st.workspaces,
                  clients    |-> CloseAll(st.clients, before, st.workspaces, token)]
            ELSE SweepLoopThrowing_Abort(SweepEntryThrowing(st, token, thrown),
                                         Tail(entries), thrown)

RECURSIVE SweepLoopThrowing(_, _, _)
SweepLoopThrowing(st, entries, thrown) ==
    IF entries = << >> THEN st
    ELSE SweepLoopThrowing(SweepEntryThrowing(st, Head(entries), thrown),
                           Tail(entries), thrown)

cleanupWorkspacesThrowing(thrown) ==
    LET st == SweepLoopThrowing([workspaces |-> workspaces, clients |-> clients],
                                Entries(1), thrown) IN
    /\ thrown \subseteq UNION {workspaces[t].wsClients : t \in DOMAIN workspaces}
    /\ clients' = st.clients
    /\ workspaces' = st.workspaces
    /\ globalWorkspace' = SweptGlobal
    /\ UNCHANGED << state, consumer, now, API_KEY, createRateLimit, issued, inflight,
                    nextRid, accepted, resp, ticks >>

----------------------------------------------------------------------------
\* What the clients of the model send

Tokens == {RandomToken(n) : n \in 1..MaxWorkspaces}

NeverIssued == << "moh_", "never" >>

ReadBody  == JSONObject([tool_name |-> << "Read" >>])
WriteBody == JSONObject([tool_name |-> << "Write" >>, session_id |-> << "s1" >>,
                         timestamp |-> << "iso", "producer" >>, _seq |-> 7])

\* Every producer tags the record it sends: body b as sent in request number n
Tagged(b, n) ==
    IF b.json # "object" THEN b
    ELSE JSONObject([f \in DOMAIN b.obj \cup {"id"} |-> IF f = "id" THEN n ELSE b.obj[f]])

\* the decimal numeral of n >= 0
RECURSIVE ToDecimal(_)
ToDecimal(n) ==
    IF n < 10 THEN << Digits[n + 1] >>
    ELSE Append(ToDecimal(n \div 10), Digits[(n % 10) + 1])

SinceOnly(k) == [NoFilters EXCEPT !.since_seq = ToDecimal(k)]

\* The broker under concurrent producers, subscribers and the sweep
Create   == issued < MaxWorkspaces /\ CreateWorkspace
Advance  == ticks < MaxTicks /\ Tick(WORKSPACE_TTL_MS + 1)
Submit   == /\ nextRid <= MaxRequests
            /\ Cardinality(inflight) < MaxInflight
            /\ \E a \in {Empty} \cup {Bearer(t) : t \in Tokens \cup {NeverIssued}} :
                  IngestStart(a, Null)
Complete == \E r \in inflight, b \in {InvalidJSON, ReadBody}, th \in SUBSET DOMAIN clients :
                IngestFinish(r, Tagged(b, r.rid), th)
Connect  == Len(clients) < MaxClients /\ \E t \in Tokens \cup {NeverIssued, Null} : Subscribe(t)
Drop     == \E c \in DOMAIN clients : Disconnect(c)
Closed   == \E c \in DOMAIN clients : CloseEvent(c)
Sweep    == cleanupWorkspaces

Next == Create \/ Advance \/ Submit \/ Complete \/ Connect \/ Drop \/ Closed \/ Sweep

Spec == Init /\ [][Next]_vars

\* The sequencer under a burst of concurrent producers, with the sweep running
SubmitBurst   == /\ nextRid <= MaxBurst
                 /\ \E a \in {Empty} \cup {Bearer(t) : t \in Tokens} : IngestStart(a, Null)
CompleteBurst == \E r \in inflight, b \in {InvalidJSON, WriteBody} :
                    IngestFinish(r, Tagged(b, r.rid), {})

NextIngest == Create \/ Advance \/ SubmitBurst \/ CompleteBurst \/ Sweep

SpecIngest == Init /\ [][NextIngest]_vars

\* The store and the query path under producers served one at a time
SubmitOne   == /\ nextRid <= MaxPushes
               /\ inflight = {}
               /\ \E a \in {Empty} \cup {Bearer(t) : t \in Tokens} : IngestStart(a, Null)
CompleteOne == \E r \in inflight : IngestFinish(r, Tagged(WriteBody, r.rid), {})
Query       == \E t \in Tokens \cup {Null, NeverIssued}, k \in 0..MaxSince :
                  GetEvents(t, SinceOnly(k))

NextStore == Create \/ SubmitOne \/ CompleteOne \/ Query

SpecStore == Init /\ [][NextStore]_vars

\* The query path under producers served one at a time, with every filter.
\* A query names a value or Null for each equality filter, and for since_seq
\* and limit a number (sent as its decimal numeral) or nothing.
HookBody == JSONObject([tool_name |-> << "Write" >>, session_id |-> << "s2" >>,
                        agent_type |-> << "explorer" >>, agent_id |-> << "a1" >>,
                        hook_event_name |-> << "PreToolUse" >>])

NotGiven   == [given |-> FALSE, n |-> 0]
Given(k)   == [given |-> TRUE, n |-> k]
NumArg(mx) == {NotGiven} \cup {Given(k) : k \in 0..mx}

Numeral(a) == IF a.given THEN ToDecimal(a.n) ELSE Null

\* url.searchParams of the query a consumer makes for request record req
Params(req) ==
    [session_id |-> req.session_id, agent_type |-> req.agent_type,
     tool_name |-> req.tool_name, hook_event_name |-> req.hook_event_name,
     since_seq |-> Numeral(req.since), limit |-> Numeral(req.limit)]

Filters ==
    [session_id : {Null, << "s1" >>, << "s2" >>}, agent_type : {Null, << "explorer" >>},
     tool_name : {Null, Empty, << "Read" >>, << "Write" >>},
     hook_event_name : {Null, << "PreToolUse" >>}, since : NumArg(MaxQueryPushes + 1)]

WithLimit(f, a) ==
    [session_id |-> f.session_id, agent_type |-> f.agent_type, tool_name |-> f.tool_name,
     hook_event_name |-> f.hook_event_name, since |-> f.since, limit |-> a]

Unlimited == {WithLimit(f, NotGiven) : f \in Filters}
Limited   == {WithLimit(f, Given(k)) : f \in Filters, k \in 0..MaxLimit}

NoRequest ==
    [session_id |-> Null, agent_type |-> Null, tool_name |-> Null, hook_event_name |-> Null,
     since |-> NotGiven, limit |-> NotGiven]

\* the queries that are actually sent
LastWrite == [NoRequest EXCEPT !.tool_name = << "Write" >>, !.limit = Given(1)]
Sent      == {NoRequest, LastWrite}

\* Consumers that query and list agents while a producer writes and the
\* clock moves
SubmitAgent   == /\ nextRid <= MaxLookups
                 /\ inflight = {}
                 /\ \E a \in {Empty} \cup {Bearer(t) : t \in Tokens} : IngestStart(a, Null)
CompleteAgent == \E r \in inflight, b \in {WriteBody, HookBody} :
                    IngestFinish(r, Tagged(b, r.rid), {})
QueryTokens   == Tokens \cup {Null, NeverIssued}
QuerySent     == \E t \in QueryTokens, req \in Sent : GetEvents(t, Params(req))
Agents        == \E t \in QueryTokens : GetAgents(t)

NextQuery == Create \/ Advance \/ SubmitAgent \/ CompleteAgent \/ QuerySent \/ Agents

SpecQuery == Init /\ [][NextQuery]_vars

\* The filters alone: producers of the default workspace, served one at a
\* time, and one consumer that asks for its last Write event
SubmitDefault == nextRid <= MaxQueryPushes /\ inflight = {} /\ IngestStart(Empty, Null)
CompleteSerial == \E r \in inflight, b \in {ReadBody, WriteBody, HookBody} :
                    IngestFinish(r, Tagged(b, r.rid), {})
QueryFilter   == GetEvents(Null, Params(LastWrite))

NextFilter == SubmitDefault \/ CompleteSerial \/ QueryFilter

SpecFilter == Init /\ [][NextFilter]_vars

\* Producers that send bodies of every kind, served one at a time, with
\* subscribers listening
NotRecords      == {InvalidJSON, JSONNull, JSONNumber}
CompletePayload == \E r \in inflight, b \in NotRecords \cup {ReadBody} :
                      IngestFinish(r, Tagged(b, r.rid), {})

NextPayload == Create \/ Advance \/ SubmitAgent \/ CompletePayload \/ Connect

SpecPayload == Init /\ [][NextPayload]_vars

\* The sweep: tenants come, are refreshed by an agent listing, fall idle and
\* are swept
TenantTokens == {RandomToken(n) : n \in 1..MaxTenants}

CreateTenant == issued < MaxTenants /\ CreateWorkspace
Elapse       == ticks < MaxElapses /\ \E d \in {1, WORKSPACE_TTL_MS} : Tick(d)
Refresh      == \E t \in TenantTokens : GetAgents(t)

NextSweep == CreateTenant \/ Elapse \/ Refresh \/ Sweep

SpecSweep == Init /\ [][NextSweep]_vars

\* The eviction of a tenant that has subscribers, some of which have gone
\* away, while the default workspace has subscribers too
Attach == Len(clients) < MaxSubscribers /\ \E t \in Tokens \cup {Null} : Subscribe(t)

NextEvict == Create \/ Advance \/ Attach \/ Drop \/ Closed \/ Sweep

SpecEvict == Init /\ [][NextEvict]_vars

\* The life of one tenant: it is created, used by a producer, a consumer and
\* a subscriber, falls idle and is swept, and its token is presented again
Presented == Tokens \cup {NeverIssued}

Lookup    == /\ nextRid <= MaxLookups
             /\ \E t \in Presented : IngestStart(Bearer(t), Null)
Store     == \E r \in inflight : IngestFinish(r, Tagged(ReadBody, r.rid), {})
Poll      == \E t \in Presented : GetEvents(t, NoFilters)
Roster    == \E t \in Presented : GetAgents(t)
Join      == Len(clients) < MaxJoins /\ \E t \in Presented : Subscribe(t)

NextExpiry == Create \/ Advance \/ Lookup \/ Store \/ Poll \/ Roster \/ Join \/ Closed \/ Sweep

SpecExpiry == Init /\ [][NextExpiry]_vars

\* The default workspace over time: it is written, queried and subscribed to
\* without a token while a tenant comes, falls idle and is swept
WriteDefault == nextRid <= MaxLookups /\ IngestStart(Empty, Null)
PollDefault  == \E t \in {Null, Empty, NeverIssued} : GetEvents(t, NoFilters)
JoinDefault  == Len(clients) < MaxJoins /\ Subscribe(Null)

NextDefault == Create \/ Advance \/ WriteDefault \/ Store \/ PollDefault \/ JoinDefault
                   \/ Drop \/ Closed \/ Sweep

SpecDefault == Init /\ [][NextDefault]_vars

\* The admission of producers: the process starts with or without
\* MOHANO_API_KEY, and producers present a key, a token, or nothing, in the
\* Authorization header and in the api_key parameter
GlobalKeys == {<< "secret" >>, << "moh_", "secret" >>}

InitKeyed ==
    /\ now = StartTime
    /\ API_KEY \in {Empty} \cup GlobalKeys
    /\ workspaces = [t \in {} |-> Null]
    /\ globalWorkspace = createWorkspace(StartTime)
    /\ createRateLimit = [count |-> 0, resetAt |-> 0]
    /\ issued = 0
    /\ inflight = {}
    /\ nextRid = 1
    /\ clients = << >>
    /\ accepted = << >>
    /\ resp = [op |-> "none"]
    /\ ticks = 0
    /\ state = NewState
    /\ consumer = NewConsumer

\* Authorization headers that carry no moh_ bearer token, and api_key parameters
DefaultAuths == {Empty, << "secret" >>, Bearer(<< "secret" >>), Bearer(<< "wrong" >>)}
ApiKeyParams == {Null, Empty, << "wrong" >>} \cup GlobalKeys

SubmitKeyed == /\ nextRid <= MaxRequests
               /\ \E a \in DefaultAuths \cup {Bearer(t) : t \in Tokens \cup GlobalKeys},
                     k \in ApiKeyParams : IngestStart(a, k)

NextKeyed == Create \/ SubmitKeyed \/ Store

SpecKeyed == InitKeyed /\ [][NextKeyed]_vars

\* The default workspace when the process may have MOHANO_API_KEY set:
\* producers write to it, and consumers query it, list its agents and
\* subscribe to it.  The GET handlers and the upgrade handler read only the
\* token parameter, so one step stands for the request whatever its
\* Authorization header and api_key parameter are
RosterDefault == \E t \in {Null, Empty} : GetAgents(t)

NextOpen == SubmitKeyed \/ Store \/ PollDefault \/ RosterDefault \/ JoinDefault

SpecOpen == InitKeyed /\ [][NextOpen]_vars

\* Tenants when the process may have MOHANO_API_KEY set: requests present a
\* workspace-shaped token (registered, not yet issued, evicted, or the key
\* itself when it has that shape), with or without the key in api_key;
\* tenants are created before they are written to, consumers come while no
\* producer is suspended, and subscribers after the producers
PresentedKeyed == Tokens \cup {k \in GlobalKeys : StartsWithMoh(k)}
KeyParams      == {Null} \cup GlobalKeys

CreateFirst == issued < MaxWorkspaces /\ nextRid = 1 /\ ticks = 0
                   /\ CreateWorkspace
LookupKeyed == /\ nextRid <= MaxLookups
               /\ \E t \in PresentedKeyed, k \in KeyParams : IngestStart(Bearer(t), k)
PollKeyed   == inflight = {} /\ \E t \in PresentedKeyed : GetEvents(t, NoFilters)
RosterKeyed == inflight = {} /\ \E t \in PresentedKeyed : GetAgents(t)
JoinKeyed   == /\ Len(clients) < MaxJoins
               /\ inflight = {}
               /\ nextRid > MaxLookups
               /\ \E t \in PresentedKeyed : Subscribe(t)

NextToken == CreateFirst \/ Advance \/ LookupKeyed \/ Store \/ PollKeyed \/ RosterKeyed
                 \/ JoinKeyed \/ Sweep

SpecToken == InitKeyed /\ [][NextToken]_vars

\* The rate limiter: workspaces are requested in bursts while the clock moves
\* by a millisecond or by the length of a window
CreateAny  == issued < MaxCreates /\ CreateWorkspace
WindowTick == ticks < MaxWindowTicks /\ \E d \in {1, RATE_LIMIT_WINDOW_MS} : Tick(d)

NextRate == CreateAny \/ WindowTick

SpecRate == Init /\ [][NextRate]_vars

\* Workspaces are created while the first one is in use: it is written to
\* and subscribed to, and the clock moves
NextCreate == CreateTenant \/ Advance \/ SubmitAgent \/ CompleteAgent \/ Attach

SpecCreate == Init /\ [][NextCreate]_vars

\* The sweep against a suspended producer: a request is admitted, the clock
\* moves and the sweep runs while its body is still arriving; the body, when
\* it arrives, is of any kind, and the tenant and the default workspace have
\* subscribers
NextRace == Create \/ Advance \/ SubmitAgent \/ CompletePayload \/ Attach \/ Sweep

SpecRace == Init /\ [][NextRace]_vars

\* The life of a connection: it is admitted to a tenant or to the default
\* workspace, events are broadcast (send may throw for a connection whose
\* socket has gone), its socket goes away, its close event is handled, and
\* the sweep may evict its workspace at any point
JoinEither   == Len(clients) < MaxJoins /\ \E t \in Tokens \cup {Null} : Subscribe(t)
CompleteLink == \E r \in inflight, th \in SUBSET DOMAIN clients :
                    IngestFinish(r, Tagged(ReadBody, r.rid), th)

NextLink == Create \/ Advance \/ JoinEither \/ SubmitAgent \/ CompleteLink \/ Drop \/ Closed
                \/ Sweep

SpecLink == Init /\ [][NextLink]_vars

\* The sweep when closing a connection can fail: two tenants have
\* subscribers, fall idle, and are swept while close throws for some of them
AttachTenant  == Len(clients) < MaxSubscribers /\ \E t \in TenantTokens : Subscribe(t)
SweepThrowing == \E th \in SUBSET DOMAIN clients : cleanupWorkspacesThrowing(th)

NextFail == CreateTenant \/ Advance \/ AttachTenant \/ Drop \/ SweepThrowing

SpecFail == Init /\ [][NextFail]_vars

\* Producers served one at a time that send a record without a timestamp,
\* with one, or with an empty one, to a tenant or to the default workspace,
\* while the clock moves
BlankBody == JSONObject([tool_name |-> << "Read" >>, timestamp |-> Empty])

SubmitStamp   == /\ nextRid <= MaxBurst
                 /\ inflight = {}
                 /\ \E a \in {Empty} \cup {Bearer(t) : t \in Tokens} : IngestStart(a, Null)
CompleteStamp == \E r \in inflight, b \in {ReadBody, WriteBody, BlankBody} :
                    IngestFinish(r, Tagged(b, r.rid), {})

NextStamp == Create \/ Advance \/ SubmitStamp \/ CompleteStamp

SpecStamp == Init /\ [][NextStamp]_vars

\* Agents of several sessions and teams reporting to a tenant or to the default
\* workspace, one request at a time, while the clock moves and the directory
\* is listed.  Two of them have ids with a colon in them.
TeamBody   == JSONObject([agent_type |-> << "explorer" >>, agent_name |-> << "lead" >>,
                          team_name |-> << "t1" >>, teammate_name |-> << "m1" >>])
SplitLeft  == JSONObject([session_id |-> << "s", ":", "x" >>, agent_id |-> << "a1" >>])
SplitRight == JSONObject([session_id |-> << "s" >>, agent_id |-> << "x", ":", "a1" >>])
AgentBodies == {WriteBody, TeamBody, SplitLeft, SplitRight}

SubmitReport   == /\ nextRid <= MaxReports
                  /\ inflight = {}
                  /\ \E a \in {Empty} \cup {Bearer(t) : t \in Tokens} : IngestStart(a, Null)
CompleteRoster == \E r \in inflight, b \in AgentBodies : IngestFinish(r, Tagged(b, r.rid), {})
RosterAny      == inflight = {} /\ \E t \in Tokens \cup {Null} : GetAgents(t)

NextAgents == CreateFirst \/ Advance \/ SubmitReport \/ CompleteRoster \/ RosterAny

SpecAgents == Init /\ [][NextAgents]_vars

\* The ring buffer under overlapping requests whose bodies are records, other
\* JSON values, or not JSON at all
CompleteRing == \E r \in inflight, b \in NotRecords \cup {WriteBody} :
                   IngestFinish(r, Tagged(b, r.rid), {})

NextRing == Create \/ SubmitBurst \/ CompleteRing

SpecRing == Init /\ [][NextRing]_vars

\* Producers served one at a time, some sending their own _seq, with
\* subscribers that come and go
CompleteSeq == \E r \in inflight, b \in {ReadBody, WriteBody}, th \in SUBSET DOMAIN clients :
                  IngestFinish(r, Tagged(b, r.rid), th)

NextSeqs == CreateFirst \/ JoinEither \/ Drop \/ SubmitReport \/ CompleteSeq

SpecSeq == Init /\ [][NextSeqs]_vars

\* One tenant that clients keep using, so that the clock never gets more than
\* WORKSPACE_TTL_MS past the last request served on it, next to tenants whose
\* only clients are subscribers that connected and then stay silent.  The
\* sweep is on a timer, so it runs again and again.  A consumer makes its
\* request when the clock has moved since the tenant was last used.
Kept == RandomToken(1)
Idle == RandomToken(2)

CreateEarly == ticks = 0 /\ clients = << >> /\ nextRid = 1 /\ CreateTenant
SubmitKept == nextRid <= MaxLookups /\ IngestStart(Bearer(Kept), Null)
StoreKept  == \E r \in inflight : IngestFinish(r, Tagged(ReadBody, r.rid), {})
Due        == Kept \in DOMAIN workspaces => workspaces[Kept].lastActivity < now
PollKept   == Due /\ GetEvents(Kept, NoFilters)
RosterKept == Due /\ GetAgents(Kept)
JoinKept   == Due /\ Len(clients) = MaxJoins /\ Subscribe(Kept)
AttachIdle == Len(clients) < MaxJoins /\ Subscribe(Idle)
ElapseKept == /\ ticks < MaxElapses
              /\ \E d \in {1, WORKSPACE_TTL_MS} :
                    /\ Kept \in DOMAIN workspaces =>
                          (now + d) - workspaces[Kept].lastActivity <= WORKSPACE_TTL_MS
                    /\ Tick(d)

NextKeep == CreateEarly \/ ElapseKept \/ SubmitKept \/ StoreKept \/ PollKept \/ RosterKept
               \/ JoinKept \/ AttachIdle \/ Sweep

SpecKeep == Init /\ [][NextKeep]_vars /\ WF_vars(Sweep)

\* The dashboard page of the first tenant and the server.  The page is served
\* while its token is registered; its WebSocket is upgraded by the server, which
\* answers in resp; the page's handlers run when the answer, or the end of the
\* connection, reaches it.

\* init(): the page was served by GET /d/:token, which requires the token to
\* be registered
PageInit ==
    /\ state = NewState
    /\ WORKSPACE_TOKEN \in DOMAIN workspaces
    /\ state' = connectWebSocket(state)
    /\ UNCHANGED << now, API_KEY, workspaces, globalWorkspace, createRateLimit, issued,
                    inflight, nextRid, clients, accepted, resp, ticks, consumer >>

\* the server's upgrade handler takes the page's connection attempt
Upgrade ==
    /\ state.ws.readyState = "CONNECTING"
    /\ resp.op # "subscribe"
    /\ Subscribe(WORKSPACE_TOKEN)

\* the upgrade succeeded: the open event
OnOpen ==
    /\ state.ws.readyState = "CONNECTING"
    /\ resp.op = "subscribe"
    /\ resp.status = 101
    /\ state' = onopen(state, resp.client)
    /\ resp' = [op |-> "none"]
    /\ UNCHANGED << now, API_KEY, workspaces, globalWorkspace, createRateLimit, issued,
                    inflight, nextRid, clients, accepted, ticks, consumer >>

\* the upgrade was answered 401 and the socket destroyed: the browser raises
\* error, onerror calls close(), and the close event has code 1006
OnRefused ==
    /\ state.ws.readyState = "CONNECTING"
    /\ resp.op = "subscribe"
    /\ resp.status = 401
    /\ state' = onclose(state, 1006)
    /\ resp' = [op |-> "none"]
    /\ UNCHANGED << now, API_KEY, workspaces, globalWorkspace, createRateLimit, issued,
                    inflight, nextRid, clients, accepted, ticks, consumer >>

\* the code of the close event of the page's connection: the one the server
\* sent, 1006 when the connection went away without one
CloseCode == IF clients[state.ws.conn].code # 0 THEN clients[state.ws.conn].code ELSE 1006

\* the page's connection has ended: the close event
OnClose ==
    /\ state.ws.readyState = "OPEN"
    /\ clients[state.ws.conn].state # "open"
    /\ state' = onclose(state, CloseCode)
    /\ UNCHANGED << now, API_KEY, workspaces, globalWorkspace, createRateLimit, issued,
                    inflight, nextRid, clients, accepted, resp, ticks, consumer >>

\* the reconnect timer fires
TimerFired ==
    /\ state.reconnectTimer.pending
    /\ state' = onTimer(state)
    /\ UNCHANGED << now, API_KEY, workspaces, globalWorkspace, createRateLimit, issued,
                    inflight, nextRid, clients, accepted, resp, ticks, consumer >>

DropPage == Len(clients) < MaxJoins + 1 /\ Drop

NextDash == Create \/ Advance \/ PageInit \/ Upgrade \/ OnOpen \/ OnRefused \/ OnClose
               \/ TimerFired \/ DropPage \/ Closed \/ Sweep

SpecDash == Init /\ [][NextDash]_vars

\* A consumer that polls the first tenant with since_seq set to its cursor,
\* while producers, served one at a time, send to that tenant.  A response
\* waits in resp until the consumer has taken it, and a producer is served
\* only while the events the consumer has not yet got fit in the buffer.
Feed == RandomToken(1)

\* the highest _seq among the events of a response and the cursor
RECURSIVE Highest(_, _)
Highest(body, cursor) ==
    IF body = << >> THEN cursor
    ELSE Highest(Tail(body), IF Head(body)._seq > cursor THEN Head(body)._seq ELSE cursor)

SubmitFeed   == /\ nextRid <= MaxPushes
                /\ inflight = {}
                /\ resp.op # "query"
                /\ IngestStart(Bearer(Feed), Null)
CompleteFeed == /\ resp.op # "query"
                /\ Feed \in DOMAIN workspaces
                /\ workspaces[Feed].seq - consumer.cursor < MAX_EVENTS
                /\ \E r \in inflight, b \in {ReadBody, WriteBody} :
                      IngestFinish(r, Tagged(b, r.rid), {})
ServeCursor  == /\ resp.op # "query"
                /\ GetEvents(Feed, SinceOnly(consumer.cursor))
TakeAnswer   == /\ resp.op = "query"
                /\ resp.status = 200
                /\ consumer' = [cursor |-> Highest(resp.body, consumer.cursor),
                                log    |-> consumer.log \o resp.body]
                /\ resp' = [op |-> "none"]
                /\ UNCHANGED << now, API_KEY, workspaces, globalWorkspace, createRateLimit,
                                issued, inflight, nextRid, clients, accepted, ticks, state >>

NextPoll == CreateFirst \/ SubmitFeed \/ CompleteFeed \/ ServeCursor \/ TakeAnswer

SpecPoll == Init /\ [][NextPoll]_vars

----------------------------------------------------------------------------
\* Views of the history

\* the successful ingestions into the workspace of a key, oldest first
HistoryOf(key) == LET In(a) == a.key = key IN SelectSeq(accepted, In)

\* ... and their events
EventsOf(key) == [i \in 1..Len(HistoryOf(key)) |-> HistoryOf(key)[i].event]

\* the last n elements of a sequence (all of it when it is shorter)
LastN(seq, n) == IF n >= Len(seq) THEN seq ELSE SubSeq(seq, Len(seq) - n + 1, Len(seq))

\* the workspace object of a key of the registry
Ws(key) == WsOf(workspaces, globalWorkspace, key)

\* the place in the history of the ingestion that produced event e
AcceptedAt(e) == CHOOSE j \in 1..Len(accepted) : accepted[j].event = e

----------------------------------------------------------------------------
\* C1: however concurrent POST /api/events requests interleave, the n-th
\* ingestion accepted into a workspace is given sequence number n (so the
\* numbers of a workspace are distinct, increasing and start at 1), the caller
\* is answered that number, and the workspace counter equals the number of
\* ingestions accepted into it.
C1_SequenceNumbers ==
    /\ \A i \in 1..Len(accepted) :
          LET n == Cardinality({j \in 1..i : accepted[j].key = accepted[i].key}) IN
          accepted[i].event._seq = n /\ accepted[i].reply = n
    /\ \A key \in Keys : Ws(key).seq = Len(HistoryOf(key))

\* two requests to one workspace overlapped: the later one was accepted first
C1_Witness ==
    \E i, j \in 1..Len(accepted) :
        /\ i < j
        /\ accepted[i].key = accepted[j].key
        /\ accepted[i].rid > accepted[j].rid
        /\ accepted[j].event._seq = 2

\* C2: while no more than MAX_EVENTS events have been ingested into a
\* workspace, toArray() returns exactly them, in ingestion order, numbered 1..N.
C2_SnapshotBelowCapacity ==
    \A key \in Keys :
        Ws(key).seq <= MAX_EVENTS =>
            /\ toArray(Ws(key).events) = EventsOf(key)
            /\ Len(toArray(Ws(key).events)) = Ws(key).seq
            /\ \A i \in 1..Ws(key).seq : toArray(Ws(key).events)[i]._seq = i

\* a workspace holds exactly MAX_EVENTS events
C2_Witness ==
    \E key \in Keys : Ws(key).seq = MAX_EVENTS /\ Len(EventsOf(key)) = MAX_EVENTS

\* C3: once more than MAX_EVENTS events have been ingested into a workspace,
\* toArray() returns the MAX_EVENTS most recent ones, oldest first, numbered
\* N-MAX_EVENTS+1..N.
C3_SnapshotAfterWrap ==
    \A key \in Keys :
        Ws(key).seq > MAX_EVENTS =>
            /\ toArray(Ws(key).events) = LastN(EventsOf(key), MAX_EVENTS)
            /\ \A i \in 1..MAX_EVENTS :
                  toArray(Ws(key).events)[i]._seq = Ws(key).seq - MAX_EVENTS + i

\* a buffer that has wrapped twice and stands one past a multiple of its capacity
C3_Witness ==
    \E key \in Keys :
        /\ Ws(key).seq = 2 * MAX_EVENTS + 1
        /\ Ws(key).events.head = 1

C5_QueryIsolation ==
    \A key \in Keys :
        \A i \in 1..Len(QueryEvents(Ws(key), NoFilters)) :
            \E j \in 1..Len(accepted) :
                /\ accepted[j].event = QueryEvents(Ws(key), NoFilters)[i]
                /\ accepted[j].key = key

\* C5: a successful ingestion into one workspace leaves every other workspace
\* object as it was (store, counter, agents, subscribers, last activity), and
\* what GET /api/events answers for a workspace holds only events ingested
\* into that workspace.
C5_IngestFrame ==
    /\ [][Len(accepted') > Len(accepted) =>
            LET key == accepted'[Len(accepted')].key IN
            /\ key # Global => globalWorkspace' = globalWorkspace
            /\ \A t \in DOMAIN workspaces \ {key} :
                  t \in DOMAIN workspaces' /\ workspaces'[t] = workspaces[t]]_vars
    /\ []C5_QueryIsolation

\* the default workspace and a token workspace both hold events, and the
\* clock has moved since the token workspace was last active
C5_Witness ==
    /\ globalWorkspace.seq > 0
    /\ \E t \in DOMAIN workspaces :
          /\ workspaces[t].seq > 0
          /\ workspaces[t].lastActivity < now
          /\ accepted[Len(accepted)].key = Global

\* C6: the sequence numbers of the events sent to one connection are strictly
\* increasing, in the order they were sent.
C6_DeliveryInSequence ==
    \A c \in DOMAIN clients :
        \A i, j \in 1..Len(clients[c].received) :
            i < j => clients[c].received[i]._seq < clients[c].received[j]._seq

\* a connection has been sent two events
C6_Witness == \E c \in DOMAIN clients : Len(clients[c].received) >= 2

\* C7 as claimed: a connection is sent the events of its workspace in the order
\* in which their requests were submitted.
C7_SubmissionOrder ==
    \A c \in DOMAIN clients :
        \A i, j \in 1..Len(clients[c].received) :
            i < j => clients[c].received[i].id < clients[c].received[j].id

\* C7 amended: a connection is sent the events of its workspace in the order in
\* which their ingestions completed, which is the order of the sequence numbers
\* the callers were answered.
C7_CompletionOrder ==
    \A c \in DOMAIN clients :
        \A i, j \in 1..Len(clients[c].received) :
            i < j =>
                LET a == AcceptedAt(clients[c].received[i])
                    b == AcceptedAt(clients[c].received[j])
                IN a < b /\ accepted[a].reply < accepted[b].reply

\* a connection was sent both events of two overlapping requests, the one
\* submitted later first
C7_Witness ==
    \E c \in DOMAIN clients :
        \E i, j \in 1..Len(clients[c].received) :
            i < j /\ clients[c].received[i].id > clients[c].received[j].id

\* C8: when send throws for some connections during the fan-out of an accepted
\* event, they leave the subscriber set, every other open subscriber of the
\* workspace is sent the event, the event is in the store and the caller is
\* answered 200 with the event's sequence number.
C8_FanOutFailure ==
    [][\A r \in inflight, th \in SUBSET DOMAIN clients :
          (th # {} /\ IngestFinish(r, Tagged(ReadBody, r.rid), th)) =>
              LET key == resolveWorkspace(extractBearerToken(r.authorization))
                  e   == accepted'[Len(accepted')].event
                  w   == WsOf(workspaces', globalWorkspace', key)
              IN
              /\ Len(accepted') = Len(accepted) + 1
              /\ th \cap w.wsClients = {}
              /\ \A c \in Ws(key).wsClients \ th :
                    /\ c \in w.wsClients
                    /\ CanReceive(c) => clients'[c].received = Append(clients[c].received, e)
              /\ \E i \in 1..Len(toArray(w.events)) : toArray(w.events)[i] = e
              /\ resp' = [op |-> "ingest", status |-> 200, seq |-> e._seq]]_vars

\* the last event was accepted and sent to one subscriber of its workspace
\* while send threw for an earlier subscriber of the same workspace, which is
\* out of the subscriber set before its close event has been handled
C8_Witness ==
    /\ resp = [op |-> "ingest", status |-> 200, seq |-> 1]
    /\ \E c1, c2 \in DOMAIN clients :
          /\ c1 < c2
          /\ clients[c1].key = clients[c2].key
          /\ clients[c1].key \in Keys
          /\ clients[c1].state = "closing"
          /\ clients[c1].code = 0
          /\ c1 \notin Ws(clients[c1].key).wsClients
          /\ clients[c1].received = << >>
          /\ clients[c2].received = << accepted[Len(accepted)].event >>

\* C9: a connection is sent only events whose ingestion completed after it was
\* admitted.
C9_NoReplay ==
    \A c \in DOMAIN clients :
        \A i \in 1..Len(clients[c].received) :
            AcceptedAt(clients[c].received[i]) > clients[c].joinedAt

\* a connection admitted to a workspace that already held an event has been
\* sent a later one
C9_Witness ==
    \E c \in DOMAIN clients :
        /\ Len(clients[c].received) > 0
        /\ \E j \in 1..clients[c].joinedAt : accepted[j].key = clients[c].key

\* the events of a workspace that are still retained and numbered above k
RetainedAbove(key, k) ==
    LET Keep(e) == e._seq > k IN SelectSeq(LastN(EventsOf(key), MAX_EVENTS), Keep)

\* C10: in every state, what GET /api/events answers for since_seq = k (a
\* decimal numeral, k >= 0) and no other parameter is the retained events of
\* the workspace numbered above k, oldest first.
C10_SinceSeq ==
    \A t \in Tokens \cup {Null}, k \in 0..MaxSince :
        resolveWorkspace(t) # NoWorkspace =>
            LET body == QueryEvents(Ws(resolveWorkspace(t)), SinceOnly(k)) IN
            /\ body = RetainedAbove(resolveWorkspace(t), k)
            /\ \A i \in 1..Len(body) : body[i]._seq > k
            /\ \A i \in 1..(Len(body) - 1) : body[i]._seq < body[i + 1]._seq

\* a query was answered some but not all of the events its workspace retains
C10_Witness ==
    /\ resp.op = "query"
    /\ resp.status = 200
    /\ Len(resp.body) = 1
    /\ resp.body[1]._seq = 2 * MAX_EVENTS + 1

----------------------------------------------------------------------------
\* What a query asks for, read off the history

FilterFields == {"session_id", "agent_type", "tool_name", "hook_event_name"}

\* a filter is supplied when its parameter is sent with a value
Supplied(v) == v # Null /\ v # Empty

\* event e satisfies every filter of req other than the limit
Matches(e, req) ==
    /\ \A f \in FilterFields : Supplied(req[f]) => (f \in DOMAIN e /\ e[f] = req[f])
    /\ req.since.given => e._seq > req.since.n

\* the events the history says a workspace retains, oldest first
Retained(key) == LastN(EventsOf(key), MAX_EVENTS)

\* those of a sequence of events that match req, in the same order
MatchingIn(retained, req) == LET Keep(e) == Matches(e, req) IN SelectSeq(retained, Keep)

\* the retained events of a workspace that match req, oldest first
Matching(key, req) == MatchingIn(Retained(key), req)

\* what GET /api/events answers for req in the workspace of a key
Answer(key, req) == QueryEvents(Ws(key), Params(req))

\* C11 as claimed: for every limit L >= 0, the answer has at most L events and
\* is the last L of the events matching the other filters, oldest first.
C11_LimitCap ==
    \A key \in Keys :
        LET retained == Retained(key) IN
        \A req \in Limited :
            LET answer == Answer(key, req) IN
            /\ Len(answer) <= req.limit.n
            /\ answer = LastN(MatchingIn(retained, req), req.limit.n)

\* C11 amended: for every limit L >= 1, the answer has at most L events and is
\* the last L of the events matching the other filters, oldest first; a limit
\* of 0 caps nothing.
C11_PositiveLimitCap ==
    \A key \in Keys :
        LET retained == Retained(key) IN
        \A req \in Limited :
            LET answer == Answer(key, req) IN
            IF req.limit.n >= 1
            THEN /\ Len(answer) <= req.limit.n
                 /\ answer = LastN(MatchingIn(retained, req), req.limit.n)
            ELSE answer = MatchingIn(retained, req)

\* a query with a filter and limit 1 was answered the newest of two retained
\* events that match the filter
C11_Witness ==
    \E key \in Keys :
        /\ Len(Matching(key, LastWrite)) = 2
        /\ resp = [op |-> "query", status |-> 200, body |-> << Matching(key, LastWrite)[2] >>]

\* C12: without a limit, the answer is exactly the retained events of the
\* workspace that satisfy every supplied filter (equality on session_id,
\* agent_type, tool_name, hook_event_name; _seq above since_seq), oldest first;
\* a filter that is not supplied constrains nothing, and the handler answers
\* 200 with an array, empty when nothing matches.
C12_Filters ==
    /\ \A key \in Keys :
          LET retained == Retained(key) IN
          \A req \in Unlimited : Answer(key, req) = MatchingIn(retained, req)
    /\ \A key \in Keys : Answer(key, NoRequest) = LastN(EventsOf(key), MAX_EVENTS)
    /\ resp.op = "query" =>
          \/ resp.status = 200 /\ DOMAIN resp.body = 1..Len(resp.body)
          \/ resp.status = 401 /\ \E t \in QueryTokens : resolveWorkspace(t) = NoWorkspace

\* the store has wrapped; a query with a filter and a limit was answered one
\* of the two retained events that match the filter, a filter together with
\* since_seq selects the other, and two filters that no event satisfies
\* together select nothing
C12_Witness ==
    /\ globalWorkspace.seq > MAX_EVENTS
    /\ Len(Answer(Global, [NoRequest EXCEPT !.tool_name = << "Write" >>])) = 2
    /\ Len(Answer(Global, [NoRequest EXCEPT !.tool_name = << "Write" >>,
                                             !.since = Given(globalWorkspace.seq - 1)])) = 1
    /\ Len(Answer(Global, [NoRequest EXCEPT !.session_id = << "s1" >>])) = 1
    /\ Answer(Global, [NoRequest EXCEPT !.session_id = << "s1" >>,
                                         !.agent_type = << "explorer" >>]) = << >>
    /\ resp = [op |-> "query", status |-> 200, body |-> Answer(Global, LastWrite)]

\* C13: GET /api/events and GET /api/agents change nothing but lastActivity:
\* the registry keeps its tokens, every workspace keeps its store, counter,
\* agents, subscribers and creation time, the default workspace and the
\* connections are untouched, and every query and agent listing is answered
\* afterwards as it would have been before.
C13_ReadOnly ==
    [][\A t \in QueryTokens :
          ((\E req \in Sent : GetEvents(t, Params(req))) \/ GetAgents(t)) =>
              /\ globalWorkspace' = globalWorkspace
              /\ clients' = clients
              /\ accepted' = accepted
              /\ DOMAIN workspaces' = DOMAIN workspaces
              /\ \A k \in DOMAIN workspaces :
                    [workspaces'[k] EXCEPT !.lastActivity = workspaces[k].lastActivity]
                        = workspaces[k]
              /\ \A k \in DOMAIN workspaces :
                    /\ ListAgents(workspaces'[k]) = ListAgents(workspaces[k])
                    /\ \A req \in Sent :
                          QueryEvents(workspaces'[k], Params(req))
                              = QueryEvents(workspaces[k], Params(req))]_vars

\* an agent listing of a token workspace that holds events and agents was
\* answered after the clock had moved, and refreshed its last activity
C13_Witness ==
    /\ resp.op = "agents"
    /\ resp.status = 200
    /\ \E t \in DOMAIN workspaces :
          /\ resp.body = ListAgents(workspaces[t])
          /\ Len(resp.body) = 1
          /\ workspaces[t].seq = MaxLookups
          /\ workspaces[t].lastActivity = now
          /\ workspaces[t].createdAt < now

\* C14 as claimed: a POST /api/events whose body is not a JSON record (bytes
\* that do not parse, null, a number) is answered 400 and changes nothing: no
\* workspace (store, counter, agents, last activity) and no connection.
C14_InvalidPayload ==
    [][\A r \in inflight, b \in NotRecords :
          IngestFinish(r, b, {}) =>
              /\ resp'.status = 400
              /\ workspaces' = workspaces
              /\ globalWorkspace' = globalWorkspace
              /\ clients' = clients]_vars

\* C15: a run of cleanupWorkspaces removes from the registry exactly the
\* workspaces with now - lastActivity > WORKSPACE_TTL_MS, and leaves the
\* others in it as they were.
C15_SweepExact ==
    [][cleanupWorkspaces =>
          /\ DOMAIN workspaces' =
                {t \in DOMAIN workspaces : now - workspaces[t].lastActivity <= WORKSPACE_TTL_MS}
          /\ \A t \in DOMAIN workspaces' : workspaces'[t] = workspaces[t]]_vars

\* a sweep has removed one workspace and kept another that had been idle for
\* exactly WORKSPACE_TTL_MS
C15_Witness ==
    /\ issued = 2
    /\ Cardinality(DOMAIN workspaces) = 1
    /\ \E t \in DOMAIN workspaces : now - workspaces[t].lastActivity = WORKSPACE_TTL_MS

C17_DefaultPermanent ==
    /\ [][cleanupWorkspaces => globalWorkspace' = globalWorkspace]_vars
    /\ [](/\ resolveWorkspace(Null) = Global
          /\ resolveWorkspace(Empty) = Global
          /\ globalWorkspace.createdAt = StartTime
          /\ globalWorkspace.seq = Len(HistoryOf(Global))
          /\ toArray(globalWorkspace.events) = Retained(Global)
          /\ \A c \in DOMAIN clients :
                (clients[c].key = Global /\ clients[c].state = "open") =>
                    c \in globalWorkspace.wsClients /\ clients[c].code = 0)

\* long after the default workspace was last written, and after a sweep that
\* evicted a tenant, a query without a token was answered the stored event
\* and the default workspace still has its subscriber
C17_Witness ==
    /\ now - globalWorkspace.lastActivity > WORKSPACE_TTL_MS
    /\ issued = 1
    /\ workspaces = [t \in {} |-> Null]
    /\ globalWorkspace.seq = 1
    /\ globalWorkspace.wsClients # {}
    /\ resp = [op |-> "query", status |-> 200, body |-> Retained(Global)]

\* C18: resolveWorkspace gives the default workspace for an absent or empty
\* token and for a token that does not start with moh_, the registered
\* workspace for a moh_ token in the registry, and null -- not the default
\* workspace -- for a moh_ token that is not in the registry.
C18_Resolve ==
    /\ \A t \in {Null, Empty, << "secret" >>, << "x", "moh_", "1" >>, << "Moh_", "1" >>} :
          resolveWorkspace(t) = Global
    /\ \A t \in Tokens \cup {NeverIssued, << "moh_" >>} :
          /\ t \in DOMAIN workspaces => resolveWorkspace(t) = t /\ Ws(resolveWorkspace(t)) = workspaces[t]
          /\ t \notin DOMAIN workspaces => resolveWorkspace(t) = NoWorkspace
    /\ NoWorkspace # Global

\* a subscription with a token was admitted to that token's workspace
C18_Witness ==
    \E t \in DOMAIN workspaces :
        /\ resp.op = "subscribe"
        /\ resp.status = 101
        /\ resp.client \in workspaces[t].wsClients
        /\ resolveWorkspace(t) = t
        /\ resolveWorkspace(NeverIssued) = NoWorkspace

\* the tokens that were issued and are no longer in the registry
Evicted == {t \in Tokens : t \notin DOMAIN workspaces /\ \E n \in 1..issued : t = RandomToken(n)}

\* C19: once a workspace has been evicted its token is never in the registry
\* again; an ingestion, a query, an agent listing and a subscription that
\* present it have exactly the outcome they have for a token that was never
\* issued (401, nothing stored, nothing returned, no connection admitted), and
\* an ingestion admitted before the eviction fails the same way once its body
\* has arrived.
C19_ExpiredIsInvalid ==
    /\ [][\A t \in Evicted :
            /\ t \notin DOMAIN workspaces'
            /\ GetEvents(t, NoFilters) <=> GetEvents(NeverIssued, NoFilters)
            /\ GetAgents(t) <=> GetAgents(NeverIssued)
            /\ Subscribe(t) <=> Subscribe(NeverIssued)
            /\ IngestStart(Bearer(t), Null) <=> IngestStart(Bearer(NeverIssued), Null)
            /\ (GetEvents(t, NoFilters) \/ GetAgents(t) \/ Subscribe(t)
                    \/ IngestStart(Bearer(t), Null)) =>
                   /\ resp'.status = 401
                   /\ UNCHANGED << workspaces, globalWorkspace, clients, accepted, inflight >>
            /\ \A r \in inflight :
                  (r.authorization = Bearer(t) /\ IngestFinish(r, Tagged(ReadBody, r.rid), {})) =>
                      /\ resp' = [op |-> "ingest", status |-> 401,
                                   error |-> "Invalid workspace token"]
                      /\ UNCHANGED << workspaces, globalWorkspace, clients, accepted >>]_vars
    /\ [](\A t \in Evicted :
              /\ resolveWorkspace(t) = NoWorkspace
              /\ AdmitPost(Bearer(t), Null) = AdmitPost(Bearer(NeverIssued), Null)
              /\ AdmitPost(Bearer(t), Null) = "Invalid workspace token")

\* an ingestion admitted while its workspace was registered was answered 401
\* after the sweep had evicted the workspace
C19_Witness ==
    /\ Evicted # {}
    /\ nextRid = 2
    /\ inflight = {}
    /\ accepted = << >>
    /\ resp = [op |-> "ingest", status |-> 401, error |-> "Invalid workspace token"]

\* the request presents the configured key, as bearer credential or as the
\* api_key parameter
PresentsKey(a, k) == a = << "Bearer " >> \o API_KEY \/ (k # Null /\ k = API_KEY)

\* C20: a POST /api/events whose Authorization header carries no moh_ token is
\* admitted (it goes on to read its body) iff no key is configured or it
\* presents the key, as bearer credential or as api_key; otherwise it is
\* answered 401 Unauthorized at once, and nothing else changes.
C20_DefaultAdmission ==
    [][\A a \in DefaultAuths, k \in ApiKeyParams :
          IngestStart(a, k) =>
              IF API_KEY = Empty \/ PresentsKey(a, k)
              THEN /\ inflight' = inflight \cup {[rid |-> nextRid, authorization |-> a]}
                   /\ resp' = resp
              ELSE /\ resp' = [op |-> "ingest", status |-> 401, error |-> "Unauthorized"]
                   /\ UNCHANGED << workspaces, globalWorkspace, clients, accepted,
                                   inflight, nextRid >>]_vars

\* with a key configured, a request that presented it was stored in the
\* default workspace, and a later request that did not was denied
C20_Witness ==
    /\ API_KEY # Empty
    /\ Len(accepted) = 1
    /\ accepted[1].key = Global
    /\ resp = [op |-> "ingest", status |-> 401, error |-> "Unauthorized"]
    /\ inflight = {}

\* C21: when a global key is configured, a query, an agent listing and a
\* subscription addressed to the default workspace are denied (401, nothing
\* disclosed, no connection admitted) unless the request presents the key.
\* The handlers take the same step for a request that presents no key.
C21_KeyRequired ==
    [][API_KEY # Empty =>
          \A t \in {Null, Empty} :
              (GetEvents(t, NoFilters) \/ GetAgents(t) \/ Subscribe(t)) =>
                  /\ resp'.status = 401
                  /\ UNCHANGED << globalWorkspace, clients >>]_vars

\* C22: a request that carries a workspace-shaped token -- an ingestion at
\* its admission and again when its body has arrived, a query, an agent
\* listing, a subscription -- is allowed iff the token is in the registry at
\* that moment, whether or not a global key is configured and whether or not
\* the request presents it.
C22_TokenIsCapability ==
    [][\A t \in PresentedKeyed :
          LET registered == t \in DOMAIN workspaces IN
          /\ \A k \in KeyParams :
                IngestStart(Bearer(t), k) =>
                    IF registered
                    THEN inflight' = inflight \cup {[rid |-> nextRid, authorization |-> Bearer(t)]}
                    ELSE /\ resp' = [op |-> "ingest", status |-> 401,
                                     error |-> "Invalid workspace token"]
                         /\ inflight' = inflight
          /\ \A r \in inflight :
                (r.authorization = Bearer(t) /\ IngestFinish(r, Tagged(ReadBody, r.rid), {})) =>
                    IF registered
                    THEN resp'.status = 200 /\ Len(accepted') = Len(accepted) + 1
                    ELSE resp'.status = 401 /\ accepted' = accepted
          /\ GetEvents(t, NoFilters) => resp'.status = IF registered THEN 200 ELSE 401
          /\ GetAgents(t) => resp'.status = IF registered THEN 200 ELSE 401
          /\ Subscribe(t) =>
                IF registered
                THEN resp'.status = 101 /\ resp'.client \in workspaces'[t].wsClients
                ELSE resp'.status = 401 /\ clients' = clients]_vars

\* with a key configured, an ingestion that presented a registered token was
\* stored in that token's workspace, and a subscription with the same token
\* was admitted
C22_Witness ==
    /\ API_KEY # Empty
    /\ \E t \in DOMAIN workspaces :
          /\ Len(accepted) = 1
          /\ accepted[1].key = t
          /\ workspaces[t].wsClients # {}
          /\ resp.op = "subscribe"
          /\ resp.status = 101

\* C23: every ingestion that is stored, and every query, agent listing and
\* subscription that is answered, for a registered token leaves that
\* workspace's lastActivity equal to the current time.
C23_Touch ==
    [][\A t \in Tokens :
          /\ \A r \in inflight :
                (/\ r.authorization = Bearer(t)
                 /\ IngestFinish(r, Tagged(ReadBody, r.rid), {})
                 /\ resp'.status = 200) => workspaces'[t].lastActivity = now
          /\ (GetEvents(t, NoFilters) /\ resp'.status = 200) =>
                workspaces'[t].lastActivity = now
          /\ (GetAgents(t) /\ resp'.status = 200) => workspaces'[t].lastActivity = now
          /\ (Subscribe(t) /\ resp'.status = 101) => workspaces'[t].lastActivity = now]_vars

\* an ingestion admitted when its workspace was created was stored after the
\* clock had moved, and the workspace's lastActivity is the time of storing
C23_Witness ==
    \E t \in DOMAIN workspaces :
        /\ workspaces[t].createdAt < now
        /\ workspaces[t].lastActivity = now
        /\ workspaces[t].seq = 1
        /\ resp = [op |-> "ingest", status |-> 200, seq |-> 1]

\* the current window has not expired, and the workspaces admitted in it
\* (those created since it began; none of them can have been swept yet)
InWindow == now <= createRateLimit.resetAt

AdmittedInWindow ==
    Cardinality({t \in DOMAIN workspaces :
                    workspaces[t].createdAt + RATE_LIMIT_WINDOW_MS >= createRateLimit.resetAt})

\* C24: within a window a CreateWorkspace request is admitted (201) while
\* fewer than RATE_LIMIT_MAX have been admitted in that window, and denied
\* with 429, changing nothing, from then on; the first request after the
\* window's expiry time has passed is admitted and starts a new window, of
\* RATE_LIMIT_WINDOW_MS from that request, in which it is the first.
C24_WindowLimit ==
    /\ [][CreateWorkspace =>
            IF InWindow
            THEN IF AdmittedInWindow < RATE_LIMIT_MAX
                 THEN /\ resp'.status = 201
                      /\ resp'.token \in DOMAIN workspaces' \ DOMAIN workspaces
                      /\ createRateLimit'.resetAt = createRateLimit.resetAt
                 ELSE /\ resp' = [op |-> "create", status |-> 429]
                      /\ UNCHANGED << workspaces, createRateLimit, issued >>
            ELSE /\ resp'.status = 201
                 /\ resp'.token \in DOMAIN workspaces' \ DOMAIN workspaces
                 /\ createRateLimit' = [count |-> 1, resetAt |-> now + RATE_LIMIT_WINDOW_MS]]_vars
    /\ [](createRateLimit.count = AdmittedInWindow /\ AdmittedInWindow <= RATE_LIMIT_MAX)

\* the request that follows RATE_LIMIT_MAX admitted ones was denied, at the
\* very millisecond the window expires
C24_Witness ==
    /\ resp = [op |-> "create", status |-> 429]
    /\ issued = RATE_LIMIT_MAX
    /\ now = createRateLimit.resetAt

\* C25: in every interval of RATE_LIMIT_WINDOW_MS, wherever it starts, at most
\* RATE_LIMIT_MAX CreateWorkspace requests are admitted (no workspace is
\* swept here, so the registry holds every admitted creation).
C25_SlidingWindow ==
    \A s \in DOMAIN workspaces :
        LET from == workspaces[s].createdAt IN
        Cardinality({t \in DOMAIN workspaces :
                        /\ workspaces[t].createdAt >= from
                        /\ workspaces[t].createdAt < from + RATE_LIMIT_WINDOW_MS})
            <= RATE_LIMIT_MAX

\* C26: an admitted CreateWorkspace adds exactly one entry to the registry,
\* under the token it answers, which starts with moh_ and was not in the
\* registry; the new workspace has an empty store, counter 0, no subscribers
\* and no agents; every workspace that existed, the default one included, and
\* every connection is as it was.  (The n-th draw of randomBytes is taken to
\* differ from the draws before it.)
C26_CreateFrame ==
    [][(CreateWorkspace /\ resp'.status = 201) =>
          LET token == resp'.token IN
          /\ StartsWithMoh(token)
          /\ token \notin DOMAIN workspaces
          /\ DOMAIN workspaces' = DOMAIN workspaces \cup {token}
          /\ toArray(workspaces'[token].events) = << >>
          /\ size(workspaces'[token].events) = 0
          /\ workspaces'[token].seq = 0
          /\ workspaces'[token].wsClients = {}
          /\ workspaces'[token].agents = << >>
          /\ \A t \in DOMAIN workspaces : workspaces'[t] = workspaces[t]
          /\ UNCHANGED << globalWorkspace, clients, accepted >>]_vars

\* a second workspace was created, later than the first, while the first
\* held an event, an agent and a subscriber
C26_Witness ==
    /\ issued = 2
    /\ resp = [op |-> "create", status |-> 201, token |-> RandomToken(2)]
    /\ workspaces[RandomToken(1)].seq = 1
    /\ workspaces[RandomToken(1)].wsClients # {}
    /\ Len(workspaces[RandomToken(1)].agents) = 1
    /\ workspaces[RandomToken(2)].createdAt > workspaces[RandomToken(1)].createdAt

\* C27: when the workspace of an admitted ingestion has been evicted while
\* its body was arriving, the handler resolves the token again once the body
\* has arrived and answers 401 Invalid workspace token (for a body that
\* JSON.parse accepts; bytes it rejects are answered 400 before the token is
\* looked at): no counter moves, nothing is stored or recorded as accepted, and
\* no connection, of the evicted workspace or of any other, is sent anything.
C27_EvictedInFlight ==
    [][\A r \in inflight :
          LET token == extractBearerToken(r.authorization) IN
          (token \in Tokens /\ token \notin DOMAIN workspaces) =>
              \A b \in NotRecords \cup {ReadBody} :
                  IngestFinish(r, Tagged(b, r.rid), {}) =>
                      /\ resp' = IF b = InvalidJSON
                                 THEN [op |-> "ingest", status |-> 400, error |-> "Invalid JSON"]
                                 ELSE [op |-> "ingest", status |-> 401,
                                       error |-> "Invalid workspace token"]
                      /\ UNCHANGED << workspaces, globalWorkspace, clients, accepted >>]_vars

\* the workspace of a suspended ingestion was evicted with a subscriber, and
\* the ingestion was then answered 401: the subscriber was sent nothing
C27_Witness ==
    /\ Evicted # {}
    /\ nextRid = 2
    /\ inflight = {}
    /\ accepted = << >>
    /\ resp = [op |-> "ingest", status |-> 401, error |-> "Invalid workspace token"]
    /\ \E c \in DOMAIN clients :
          /\ clients[c].key \in Evicted
          /\ clients[c].code = 4002
          /\ clients[c].received = << >>

\* C28: an upgrade request whose moh_ token is not in the registry (not
\* issued, or evicted) is answered 401 and no connection is made: no
\* subscriber set, that of the default workspace included, gains a member;
\* and in every state the members of a subscriber set are connections that
\* were admitted with that workspace's own key.
C28_SubscribeRejected ==
    /\ [][\A t \in Tokens :
            (t \notin DOMAIN workspaces /\ Subscribe(t)) =>
                /\ resp' = [op |-> "subscribe", status |-> 401]
                /\ UNCHANGED << clients, workspaces, globalWorkspace >>]_vars
    /\ [](\A key \in Keys : \A c \in Ws(key).wsClients :
              c \in DOMAIN clients /\ clients[c].key = key)

\* after its workspace was evicted a token was refused a subscription, while
\* the default workspace keeps the subscriber it had
C28_Witness ==
    /\ Evicted # {}
    /\ resp = [op |-> "subscribe", status |-> 401]
    /\ globalWorkspace.wsClients # {}
    /\ \A c \in DOMAIN clients : clients[c].key = Global

\* the workspaces whose subscriber set holds connection c
MemberOf(c) == {key \in Keys : c \in Ws(key).wsClients}

\* C29: in every state a connection is in the subscriber set of at most one
\* workspace, and only of the one its upgrade resolved; once its close or
\* error event has been handled it is in none, and from then on nothing is
\* sent to it and nothing about it changes.
C29_OneSubscriberSet ==
    /\ [](\A c \in DOMAIN clients :
              /\ Cardinality(MemberOf(c)) <= 1
              /\ MemberOf(c) \subseteq {clients[c].key}
              /\ clients[c].state = "closed" => MemberOf(c) = {})
    /\ [][\A c \in DOMAIN clients :
              clients[c].state = "closed" => clients'[c] = clients[c]]_vars

\* a connection of a tenant was closed and handled before an event was
\* stored in its workspace, which still has its other state
C29_Witness ==
    \E c \in DOMAIN clients :
        /\ clients[c].state = "closed"
        /\ clients[c].key \in DOMAIN workspaces
        /\ clients[c].joinedAt = 0
        /\ clients[c].received = << >>
        /\ workspaces[clients[c].key].seq = 1
        /\ workspaces[clients[c].key].wsClients = {}

\* C30: when client.close throws for some connections during a sweep, the
\* sweep still signals every other open subscriber of each stale workspace
\* (code 4002), still removes every stale workspace in the same pass,
\* leaves the others as they were, and the timer's callback can run again.
C30_SweepSurvivesClose ==
    /\ [][\A th \in SUBSET DOMAIN clients :
            cleanupWorkspacesThrowing(th) =>
                /\ DOMAIN workspaces' = {t \in DOMAIN workspaces : ~Expired(t)}
                /\ \A t \in DOMAIN workspaces' : workspaces'[t] = workspaces[t]
                /\ \A t \in DOMAIN workspaces \ DOMAIN workspaces' :
                      \A c \in workspaces[t].wsClients \ th :
                          clients[c].state = "open" =>
                              clients'[c].state = "closing" /\ clients'[c].code = 4002
                /\ \A c \in th : clients'[c] = clients[c]]_vars
    /\ [](ENABLED cleanupWorkspacesThrowing({}))

\* one pass evicted both tenants although close threw for the first
\* subscriber of the first: the subscriber after it was signalled
C30_Witness ==
    /\ issued = 2
    /\ workspaces = [t \in {} |-> Null]
    /\ \E c1, c2 \in DOMAIN clients :
          /\ c1 < c2
          /\ clients[c1].key = RandomToken(1)
          /\ clients[c2].key = RandomToken(1)
          /\ clients[c1].state = "open"
          /\ clients[c1].code = 0
          /\ clients[c2].code = 4002

\* the events in the store of a key, oldest first
StoreOf(key) == toArray(Ws(key).events)

\* C31: every stored event has a _seq, which is the number of its ingestion in
\* its workspace whatever _seq the body carried, and a non-empty timestamp;
\* when it is stored its timestamp is the body's own when the body has a
\* non-empty one and the ISO form of the broker's clock otherwise, and its
\* other fields are the body's; and an event stays exactly as it was stored
\* for as long as the store holds it.
C31_StoredEvents ==
    /\ [](\A key \in Keys : \A i \in 1..Len(StoreOf(key)) :
              LET e == StoreOf(key)[i] IN
              /\ {"_seq", "timestamp"} \subseteq DOMAIN e
              /\ e._seq = Ws(key).seq - Len(StoreOf(key)) + i
              /\ ~Falsy(e.timestamp)
              /\ e = Retained(key)[i])
    /\ [][\A r \in inflight : \A b \in {ReadBody, WriteBody, BlankBody} :
              (IngestFinish(r, Tagged(b, r.rid), {}) /\ resp'.status = 200) =>
                  LET e == accepted'[Len(accepted')].event
                      o == Tagged(b, r.rid).obj
                  IN /\ e._seq = resp'.seq
                     /\ e.timestamp = IF "timestamp" \in DOMAIN o /\ o.timestamp # Empty
                                      THEN o.timestamp
                                      ELSE ToISOString(now)
                     /\ \A f \in DOMAIN o \ {"_seq", "timestamp"} : e[f] = o[f]
                     /\ DOMAIN e = DOMAIN o \cup {"_seq", "timestamp"}]_vars
    /\ [][\A key \in Keys :
              key = Global \/ key \in DOMAIN workspaces' =>
                  \A e \in {StoreOf(key)[i] : i \in 1..Len(StoreOf(key))} :
                      LET after == WsOf(workspaces', globalWorkspace', key) IN
                      \A j \in 1..Len(toArray(after.events)) :
                          toArray(after.events)[j]._seq = e._seq =>
                              toArray(after.events)[j] = e]_vars

\* a store holds, after the clock has moved, an event stamped by its producer
\* followed by one stamped by the broker at the later time
C31_Witness ==
    \E key \in Keys :
        /\ Len(StoreOf(key)) = MAX_EVENTS
        /\ Ws(key).seq > MAX_EVENTS
        /\ StoreOf(key)[1].timestamp = << "iso", "producer" >>
        /\ StoreOf(key)[2].timestamp = ToISOString(now)
        /\ now > StartTime

\* the directory entries of a Map stored under key k
EntriesAt(agents, k) == {i \in 1..Len(agents) : agents[i].key = k}

\* what a successful ingest of body b in request r leaves in the directory of
\* its workspace, with last_seen the broker's clock (byClock) or the event's
\* timestamp
RosterAfter(r, b, byClock) ==
    LET e      == accepted'[Len(accepted')].event
        agents == WsOf(workspaces', globalWorkspace', accepted'[Len(accepted')].key).agents
        at     == EntriesAt(agents, AgentKey(e))
        Field(f) == IF f \in DOMAIN e THEN e[f] ELSE Undefined
    IN /\ Cardinality(at) = 1
       /\ \A i \in at :
            LET entry == agents[i].value IN
            /\ entry.session_id = (IF "session_id" \in DOMAIN e THEN e.session_id ELSE Empty)
            /\ entry.agent_id = (IF "agent_id" \in DOMAIN e THEN e.agent_id
                                 ELSE IF "session_id" \in DOMAIN e THEN e.session_id
                                 ELSE Empty)
            /\ entry.agent_type = Field("agent_type")
            /\ entry.agent_name = Field("agent_name")
            /\ entry.teammate_name = Field("teammate_name")
            /\ entry.team_name = Field("team_name")
            /\ entry.last_seen = (IF byClock THEN ToISOString(now) ELSE e.timestamp)

\* C32: after a successful ingest the directory of the workspace has exactly
\* one entry under the event's session and agent identity; it holds the
\* event's session id (empty when absent), agent id (the session id when
\* absent), agent type, agent name, teammate name and team name, and its
\* last_seen is the event's timestamp: the producer's when the body has one,
\* the broker's time at ingestion otherwise.
C32_LastSeenIsEventTime ==
    [][\A r \in inflight : \A b \in AgentBodies :
          (IngestFinish(r, Tagged(b, r.rid), {}) /\ resp'.status = 200) =>
              RosterAfter(r, b, FALSE)]_vars

\* C32 as stated: last_seen is the broker's time at ingestion for every event
C32_LastSeenIsBrokerTime ==
    [][\A r \in inflight : \A b \in AgentBodies :
          (IngestFinish(r, Tagged(b, r.rid), {}) /\ resp'.status = 200) =>
              RosterAfter(r, b, TRUE)]_vars

\* after the clock has moved a workspace's directory holds an entry last seen
\* at the producer's time and one last seen at the broker's
C32_Witness ==
    \E key \in Keys :
        /\ now > StartTime
        /\ \E i, j \in 1..Len(Ws(key).agents) :
              /\ Ws(key).agents[i].value.last_seen = << "iso", "producer" >>
              /\ Ws(key).agents[j].value.last_seen = ToISOString(now)
              /\ Ws(key).agents[j].value.agent_id = << "a1" >>

\* the (session id, agent identity) pair of an event: the identity is the agent
\* id, the agent name when there is no id, 'default' when there is neither
PairOf(e) ==
    << IF "session_id" \in DOMAIN e THEN e.session_id ELSE Empty,
       IF "agent_id" \in DOMAIN e THEN e.agent_id
       ELSE IF "agent_name" \in DOMAIN e THEN e.agent_name
       ELSE << "default" >> >>

\* the pairs of the events ingested into a workspace so far
PairsSeen(key) == {PairOf(EventsOf(key)[i]) : i \in 1..Len(EventsOf(key))}

\* C33: in every state the directory of each workspace has exactly one entry
\* for each distinct (session id, agent identity) pair among the events
\* ingested into it, and GET /api/agents answers that many entries.
C33_OneEntryPerPair ==
    /\ \A key \in Keys : Len(ListAgents(Ws(key))) = Cardinality(PairsSeen(key))
    /\ \A key \in Keys :
          \A i, j \in 1..Len(EventsOf(key)) :
              AgentKey(EventsOf(key)[i]) = AgentKey(EventsOf(key)[j])
                  <=> PairOf(EventsOf(key)[i]) = PairOf(EventsOf(key)[j])

\* C34: in every state and for every workspace, the buffer holds
\* min(seq, MAX_EVENTS) events, toArray() returns them numbered
\* seq - size + 1 .. seq in that order, and head is the next slot to write,
\* seq modulo the capacity, so within 0 .. capacity - 1.
C34_RingShape ==
    \A key \in Keys :
        LET cb == Ws(key).events
            n  == IF Ws(key).seq < MAX_EVENTS THEN Ws(key).seq ELSE MAX_EVENTS
        IN /\ cb.capacity = MAX_EVENTS
           /\ size(cb) = n
           /\ Len(toArray(cb)) = n
           /\ \A i \in 1..n : toArray(cb)[i]._seq = Ws(key).seq - n + i
           /\ cb.head \in 0..(cb.capacity - 1)
           /\ cb.head = Ws(key).seq % cb.capacity

\* a workspace whose buffer has wrapped: one more event than its capacity
\* went in, the oldest is gone and head is back at slot 1
C34_Witness ==
    \E key \in Keys :
        /\ Ws(key).seq = MAX_EVENTS + 1
        /\ size(Ws(key).events) = MAX_EVENTS
        /\ Ws(key).events.head = 1
        /\ toArray(Ws(key).events)[1]._seq = 2

\* the connections that a successful ingest into workspace key hands its event
\* to: the open members of the workspace's Set
Hearers(key) == {c \in Ws(key).wsClients : clients[c].state = "open"}

\* C35: when an ingest succeeds, the workspace counter goes up by one and its
\* new value is the _seq of the event appended to the store, of the event
\* handed to every open subscriber of the workspace and of the reply, whether
\* or not the body has a _seq of its own (WriteBody has 7).
C35_BrokerSeq ==
    [][\A r \in inflight : \A b \in {ReadBody, WriteBody} : \A th \in SUBSET DOMAIN clients :
          (IngestFinish(r, Tagged(b, r.rid), th) /\ resp'.status = 200) =>
              LET key    == accepted'[Len(accepted')].key
                  before == Ws(key)
                  after  == WsOf(workspaces', globalWorkspace', key)
                  stored == toArray(after.events)
              IN /\ after.seq = before.seq + 1
                 /\ resp'.seq = after.seq
                 /\ stored[Len(stored)]._seq = after.seq
                 /\ \A c \in Hearers(key) \ th :
                       /\ clients'[c].received = Append(clients[c].received, stored[Len(stored)])
                       /\ clients'[c].received[Len(clients'[c].received)]._seq = after.seq]_vars

\* a subscriber has been sent, as number 2 of its workspace, an event whose
\* body said 7, and the caller was answered 2
C35_Witness ==
    \E c \in DOMAIN clients :
        /\ Len(clients[c].received) = 2
        /\ clients[c].received[2]._seq = 2
        /\ clients[c].received[2].tool_name = << "Write" >>
        /\ Ws(clients[c].key).seq = 2
        /\ resp.op = "ingest" /\ resp.status = 200 /\ resp.seq = 2

\* C37: whenever a connection is handed an event, the state in which it has it
\* already has the event in the store of the connection's workspace, the
\* workspace counter is at least the event's _seq, and GET /api/events without
\* filters answers it; in every state the counter of a registered workspace is
\* at least the _seq of anything its connections were sent.
C37_StoredBeforeSent ==
    /\ [][\A c \in DOMAIN clients :
              clients'[c].received # clients[c].received =>
                  LET e     == clients'[c].received[Len(clients'[c].received)]
                      after == WsOf(workspaces', globalWorkspace', clients[c].key)
                      In(s) == \E i \in 1..Len(s) : s[i] = e
                  IN /\ Len(clients'[c].received) = Len(clients[c].received) + 1
                     /\ In(toArray(after.events))
                     /\ after.seq >= e._seq
                     /\ In(QueryEvents(after, NoFilters))
                     /\ In(QueryEvents(after, SinceOnly(e._seq - 1)))]_vars
    /\ [](\A c \in DOMAIN clients :
              clients[c].key \in Keys =>
                  \A i \in 1..Len(clients[c].received) :
                      Ws(clients[c].key).seq >= clients[c].received[i]._seq)

\* a subscriber that joined a workspace after its first event was handed the
\* second, which is the newest event of the store
C37_Witness ==
    \E c \in DOMAIN clients :
        /\ clients[c].key \in Keys
        /\ clients[c].joinedAt = 1
        /\ Len(clients[c].received) = 1
        /\ clients[c].received[1]._seq = 2
        /\ toArray(Ws(clients[c].key).events)[2] = clients[c].received[1]

\* C36: createRateLimit.count is within 0 .. RATE_LIMIT_MAX in every state,
\* and a POST /api/workspaces answered 429 leaves the registry, the count,
\* resetAt and everything else but the response as they were.
C36_DeniedFrame ==
    /\ [](createRateLimit.count \in 0..RATE_LIMIT_MAX)
    /\ [][(CreateWorkspace /\ resp'.status = 429) =>
             /\ createRateLimit.count = RATE_LIMIT_MAX
             /\ now <= createRateLimit.resetAt
             /\ createRateLimit'.count = createRateLimit.count
             /\ createRateLimit'.resetAt = createRateLimit.resetAt
             /\ DOMAIN workspaces' = DOMAIN workspaces
             /\ UNCHANGED << now, API_KEY, workspaces, globalWorkspace, createRateLimit,
                             issued, inflight, nextRid, clients, accepted, ticks >>]_vars

\* a request was denied strictly inside a window that had already been rolled
\* once: the count is at its maximum and the registry holds the admitted ones
C36_Witness ==
    /\ resp = [op |-> "create", status |-> 429]
    /\ createRateLimit.count = RATE_LIMIT_MAX
    /\ now < createRateLimit.resetAt
    /\ createRateLimit.resetAt > StartTime + RATE_LIMIT_WINDOW_MS
    /\ Cardinality(DOMAIN workspaces) > RATE_LIMIT_MAX

\* a registered workspace that has an open subscriber and has been idle for
\* more than WORKSPACE_TTL_MS
IdleWithSubscriber(t) ==
    /\ t \in DOMAIN workspaces
    /\ now - workspaces[t].lastActivity > WORKSPACE_TTL_MS
    /\ \E c \in workspaces[t].wsClients : clients[c].state = "open"

\* C38: every ingest, query, agent listing and subscription served on a tenant
\* sets its lastActivity to the time of the request; a tenant on which such
\* requests keep coming, so that the clock is never more than WORKSPACE_TTL_MS
\* past the last of them, stays in the registry through every sweep, whatever
\* its age; a sweep removes a workspace that has been idle for more than
\* WORKSPACE_TTL_MS even when it has open subscribers, and since the sweep is
\* on a timer such a workspace is eventually removed unless a request reaches
\* it first.
C38_KeepAlive ==
    /\ [][/\ \A r \in inflight :
                (/\ r.authorization = Bearer(Kept)
                 /\ IngestFinish(r, Tagged(ReadBody, r.rid), {})
                 /\ resp'.status = 200) => workspaces'[Kept].lastActivity = now
          /\ (PollKept /\ resp'.status = 200) => workspaces'[Kept].lastActivity = now
          /\ (RosterKept /\ resp'.status = 200) => workspaces'[Kept].lastActivity = now
          /\ (Subscribe(Kept) /\ resp'.status = 101) => workspaces'[Kept].lastActivity = now
          /\ Kept \in DOMAIN workspaces => Kept \in DOMAIN workspaces'
          /\ \A t \in TenantTokens :
                (cleanupWorkspaces /\ IdleWithSubscriber(t)) => t \notin DOMAIN workspaces']_vars
    /\ [](issued >= 1 => Kept \in DOMAIN workspaces)
    /\ IdleWithSubscriber(Idle) ~> (Idle \notin DOMAIN workspaces \/ ~IdleWithSubscriber(Idle))

\* the tenant in use has outlived WORKSPACE_TTL_MS while a tenant with an open
\* subscriber was closed with 4002 and removed
C38_Witness ==
    /\ Kept \in DOMAIN workspaces
    /\ now - workspaces[Kept].createdAt > WORKSPACE_TTL_MS
    /\ \E c \in DOMAIN clients :
          /\ clients[c].key = Idle
          /\ Idle \notin DOMAIN workspaces
          /\ clients[c].code = 4002

\* the page's connection was closed by the sweep of its workspace
ClosedAsExpired == OnClose /\ CloseCode = 4002

\* C40: when the page's connection attempt is refused because its token is not
\* registered, or its connection is closed because its workspace was swept,
\* the page sets tokenError and leaves no reconnect timer pending, and never
\* connects again; after any other close exactly one timer is pending, set
\* with the current reconnectDelay; reconnectDelay is 1000 ms at first and
\* after every open event, and never above 30000 ms.
C40_TokenErrorStops ==
    /\ [][/\ (OnRefused \/ ClosedAsExpired) =>
                /\ state'.tokenError
                /\ ~state'.reconnectTimer.pending
          /\ (OnClose /\ CloseCode # 4002) =>
                /\ ~state'.tokenError
                /\ state'.reconnectTimer = [delay |-> state.reconnectDelay, pending |-> TRUE]
          /\ OnOpen => state'.reconnectDelay = Ms(1000)
          /\ state.tokenError => state'.ws = state.ws]_vars
    /\ [](/\ state.reconnectDelay \in Ms(1000)..Ms(30000)
          /\ state.reconnectTimer.pending => state.reconnectTimer.delay \in Ms(1000)..Ms(30000))

\* C39: a consumer that polls GET /api/events with since_seq set to the
\* highest _seq it has received, 0 at first, has at every moment exactly the
\* events numbered 1 .. cursor of the workspace, each once and in the order of
\* ingestion, and after taking an answer it has every event ingested so far,
\* as long as no more than MAX_EVENTS events are ingested between two of its
\* polls and the workspace stays registered.
C39_CursorPolling ==
    /\ [](/\ consumer.cursor <= Len(EventsOf(Feed))
          /\ consumer.log = SubSeq(EventsOf(Feed), 1, consumer.cursor)
          /\ \A i \in 1..Len(consumer.log) : consumer.log[i]._seq = i)
    /\ [][TakeAnswer =>
             /\ consumer'.cursor = workspaces[Feed].seq
             /\ consumer'.log = EventsOf(Feed)]_vars

\* the consumer has got, over several polls, more events than the buffer
\* holds, the first of which the buffer has since overwritten
C39_Witness ==
    /\ Len(consumer.log) = MaxPushes
    /\ consumer.cursor = MaxPushes
    /\ Feed \in DOMAIN workspaces
    /\ toArray(workspaces[Feed].events)[1]._seq > 1
====
